---- MODULE Spec2Model ----
(***************************************************************************)
(* Model of the power4-web server (src/unnamed/part_001): the Connect-Four *)
(* variant with immobile blocks, periodic gravity inversion, a one-ply     *)
(* heuristic opponent, cookie sessions and online lobbies.                 *)
(*                                                                         *)
(* Grids are functions 0..h-1 -> (0..w-1 -> cell), indexed as in the Go    *)
(* code: Grid[r][c], row 0 on top.  Winning ([][]bool in the code) is the  *)
(* set of cells whose flag is true.                                        *)
(***************************************************************************)
EXTENDS Integers, Sequences, FiniteSets, TLC

VARIABLES
    sess,      \* the Game the client's pg_sid cookie resolves to (server.sessions)
    lobbies,   \* server.lobbies: lobby code -> lobby, or NoLobby
    mu,        \* server.mu: 0 when free, else the request holding it
    pc,        \* per in-flight request: the statement it is about to execute
    loc,       \* per in-flight request: its local variables
    resp,      \* the outcome of the last completed request
    hist,      \* observation only: the accepted moves so far, oldest first
    scenario,  \* which family of requests the clients send in this behaviour
    probe      \* pure-function harness: the inputs built and the last result

vars == <<sess, lobbies, mu, pc, loc, resp, hist, scenario, probe>>

(***************************************************************************)
(* Cells                                                                   *)
(***************************************************************************)
cellEmpty == "_"
cellR     == "R"
cellY     == "Y"
cellBlk   == "X"

Cells == {cellEmpty, cellR, cellY, cellBlk}

(***************************************************************************)
(* Grid helpers                                                            *)
(***************************************************************************)
gridH(grid) == Cardinality(DOMAIN grid)
gridW(grid) == IF gridH(grid) = 0 THEN 0 ELSE Cardinality(DOMAIN grid[0])

emptyGrid(rows, cols) == [r \in 0..(rows - 1) |-> [c \in 0..(cols - 1) |-> cellEmpty]]

setCell(grid, r, c, v) == [grid EXCEPT ![r][c] = v]

cellsOf(grid) == {<<r, c>> : r \in DOMAIN grid, c \in 0..(gridW(grid) - 1)}

\* rr >= 0 && rr < h && cc >= 0 && cc < w, with h = len(grid), w = len(grid[0])
in(grid, rr, cc) == rr \in DOMAIN grid /\ cc \in DOMAIN grid[rr]

(***************************************************************************)
(* dropRow: the landing row in column col, or -1.  Nothing blocks the way; *)
(* the scan starts at the bottom (normal gravity) or at the top (inverted) *)
(* and stops at the first Empty cell.                                      *)
(***************************************************************************)
RECURSIVE scanDown(_, _, _)
scanDown(grid, col, r) ==
    IF r < 0 THEN -1
    ELSE IF grid[r][col] = cellEmpty THEN r
    ELSE scanDown(grid, col, r - 1)

RECURSIVE scanUp(_, _, _)
scanUp(grid, col, r) ==
    IF r >= gridH(grid) THEN -1
    ELSE IF grid[r][col] = cellEmpty THEN r
    ELSE scanUp(grid, col, r + 1)

dropRowStopsAtBlock(grid, col, gravityUp) ==
    IF gridH(grid) = 0 \/ col < 0 \/ col >= gridW(grid) THEN -1
    ELSE IF ~gravityUp
         THEN IF grid[gridH(grid) - 1][col] = cellEmpty
              THEN scanDown(grid, col, gridH(grid) - 1) ELSE -1
         ELSE IF grid[0][col] = cellEmpty THEN scanUp(grid, col, 0) ELSE -1

dropRowSkipsFarRow(grid, col, gravityUp) ==
    IF gridH(grid) = 0 \/ col < 0 \/ col >= gridW(grid) THEN -1
    ELSE IF ~gravityUp THEN scanDown(grid, col, gridH(grid) - 2)
    ELSE scanUp(grid, col, 1)

dropRow(grid, col, gravityUp) ==
    IF gridH(grid) = 0 \/ col < 0 \/ col >= gridW(grid) THEN -1
    ELSE IF ~gravityUp THEN scanDown(grid, col, gridH(grid) - 1)
    ELSE scanUp(grid, col, 0)

(***************************************************************************)
(* winningLine: for each direction in order, the run of p-cells through    *)
(* (r,c) (the cell itself is taken as given); the first run of length >= 4 *)
(* is returned whole, from its backward end to its forward end.            *)
(***************************************************************************)
dirs == << <<0, 1>>, <<1, 0>>, <<1, 1>>, <<1, -1>> >>

RECURSIVE walk(_, _, _, _, _, _)
walk(grid, rr, cc, dr, dc, p) ==
    IF in(grid, rr, cc) /\ grid[rr][cc] = p
    THEN << <<rr, cc>> >> \o walk(grid, rr + dr, cc + dc, dr, dc, p)
    ELSE << >>

reverse(s) == [i \in 1..Len(s) |-> s[Len(s) + 1 - i]]

lineForwardOnly(grid, r, c, p, d) ==
    << <<r, c>> >> \o walk(grid, r + d[1], c + d[2], d[1], d[2], p)

lineAlong(grid, r, c, p, d) ==
    reverse(walk(grid, r - d[1], c - d[2], -d[1], -d[2], p))
        \o << <<r, c>> >>
        \o walk(grid, r + d[1], c + d[2], d[1], d[2], p)

RECURSIVE firstLine(_, _, _, _, _)
lineOrNext(line, grid, r, c, p, i) ==
    IF Len(line) >= 4 THEN line ELSE firstLine(grid, r, c, p, i + 1)

firstLine(grid, r, c, p, i) ==
    IF i > Len(dirs) THEN << >>
    ELSE lineOrNext(lineAlong(grid, r, c, p, dirs[i]), grid, r, c, p, i)

winningLine(grid, r, c, p) == firstLine(grid, r, c, p, 1)

(***************************************************************************)
(* isDraw: row 0 holds no Empty cell.                                      *)
(***************************************************************************)
isDrawWholeBoard(grid) ==
    \A r \in 0..(gridH(grid) - 1), c \in 0..(gridW(grid) - 1) : grid[r][c] # cellEmpty

isDraw(grid) == \A c \in 0..(gridW(grid) - 1) : grid[0][c] # cellEmpty

(***************************************************************************)
(* Game                                                                    *)
(***************************************************************************)
\* g.Message after a draw (the text of the code in plain letters).
DrawMessage == "Egalite"

\* placeBlocks draws cells at random, n*10 tries at most, and blocks the Empty
\* ones it hits until n are placed: on a fresh grid the first try always
\* succeeds and every later try may hit a cell blocked before.
placeBlocksOutcome(rows, cols, n, blk) ==
    /\ blk \subseteq cellsOf(emptyGrid(rows, cols))
    /\ IF n <= 0 THEN blk = {}
       ELSE /\ Cardinality(blk) >= 1
            /\ Cardinality(blk) <= n

placeBlocks(grid, blk) ==
    [r \in DOMAIN grid |->
        [c \in DOMAIN grid[r] |-> IF <<r, c>> \in blk THEN cellBlk ELSE grid[r][c]]]

newGame(rows, cols, blk) ==
    [ Rows       |-> rows,
      Cols       |-> cols,
      Grid       |-> placeBlocks(emptyGrid(rows, cols), blk),
      Winning    |-> {},
      Current    |-> cellR,
      Player1    |-> "",
      Player2    |-> "",
      Scores     |-> [R |-> 0, Y |-> 0],
      Message    |-> "",
      GameOver   |-> FALSE,
      Turns      |-> 0,
      GravityUp  |-> FALSE,
      Mode       |-> "local",
      Difficulty |-> "",
      LobbyCode  |-> "",
      ThisIsRed  |-> FALSE,
      LastPlayed |-> cellEmpty ]

configByDifficulty(d) ==
    CASE d = "hard"   -> [rows |-> 7, cols |-> 8, blocks |-> 7]
      [] d = "normal" -> [rows |-> 6, cols |-> 9, blocks |-> 5]
      [] OTHER        -> [rows |-> 6, cols |-> 7, blocks |-> 3]

wholeLine(line) == {line[i] : i \in 1..Len(line)}

firstFour(line) == {line[i] : i \in 1..4}

\* checkResult: the game after the check, and whether the move ended it.
checkResultOf(g, p, line) ==
    IF Len(line) >= 4
    THEN [ g    |-> [g EXCEPT !.Winning  = g.Winning \cup firstFour(line),
                              !.GameOver = TRUE,
                              !.Scores   = IF p = cellR
                                           THEN [g.Scores EXCEPT !.R = @ + 1]
                                           ELSE [g.Scores EXCEPT !.Y = @ + 1],
                              !.Message  = ""],
           over |-> TRUE ]
    ELSE IF isDraw(g.Grid)
    THEN [ g    |-> [g EXCEPT !.GameOver = TRUE, !.Message = DrawMessage],
           over |-> TRUE ]
    ELSE [ g |-> g, over |-> FALSE ]

checkResult(g, r, c, p) == checkResultOf(g, p, winningLine(g.Grid, r, c, p))

(***************************************************************************)
(* The heuristic opponent                                                  *)
(***************************************************************************)
abs(x) == IF x < 0 THEN -x ELSE x

\* One window of k cells from (r,c) along d is counted when it stays on the
\* grid, meets no block (clear) and all k of its cells hold p (cnt == k).
windowCounts(grid, r, c, d, p, k) ==
    \A i \in 0..(k - 1) :
        /\ in(grid, r + i * d[1], c + i * d[2])
        /\ grid[r + i * d[1]][c + i * d[2]] # cellBlk
        /\ grid[r + i * d[1]][c + i * d[2]] = p

countK(grid, p, k) ==
    Cardinality({w \in (DOMAIN grid) \X (DOMAIN grid[0]) \X {dirs[i] : i \in 1..Len(dirs)} :
                    windowCounts(grid, w[1], w[2], w[3], p, k)})

evalBoard(g, me) ==
    LET op == IF me = cellR THEN cellY ELSE cellR IN
    50 * countK(g.Grid, me, 3) + 10 * countK(g.Grid, me, 2)
        - 50 * countK(g.Grid, op, 3) - 10 * countK(g.Grid, op, 2)

\* With Yellow's trial piece on the grid: does some column still give Red an
\* immediate four-in-a-row?
redWinsAt(grid, cc, rr) ==
    /\ rr # -1
    /\ grid[rr][cc] = cellEmpty
    /\ Len(winningLine(setCell(grid, rr, cc, cellR), rr, cc, cellR)) >= 4

needBlock(grid, cols, gravityUp) ==
    \E cc \in 0..(cols - 1) : redWinsAt(grid, cc, dropRow(grid, cc, gravityUp))

\* The score of the board tried, Yellow's piece being in column c.
scoreTried(tried, c) ==
    evalBoard(tried, cellY)
        + (IF needBlock(tried.Grid, tried.Cols, tried.GravityUp) THEN 5000 ELSE 0)
        - abs(c - (tried.Cols \div 2))

aiScore(g, r, c) == scoreTried([g EXCEPT !.Grid = setCell(g.Grid, r, c, cellY)], c)

\* chooseAIMove's loop over the columns c, c+1, ...: aiTry looks at column c,
\* whose landing row is r; aiKeep compares its score with the best so far.
RECURSIVE aiLoop(_, _, _, _)
RECURSIVE aiTry(_, _, _, _, _)
RECURSIVE aiKeep(_, _, _, _, _)

aiKeepLast(g, c, score, bestCol, bestScore) ==
    IF score >= bestScore
    THEN aiLoop(g, c + 1, c, score)
    ELSE aiLoop(g, c + 1, bestCol, bestScore)

aiKeep(g, c, score, bestCol, bestScore) ==
    IF score > bestScore
    THEN aiLoop(g, c + 1, c, score)
    ELSE aiLoop(g, c + 1, bestCol, bestScore)

aiTryNoWinCheck(g, c, r, bestCol, bestScore) ==
    IF r = -1 \/ g.Grid[r][c] # cellEmpty
    THEN aiLoop(g, c + 1, bestCol, bestScore)
    ELSE aiKeep(g, c, aiScore(g, r, c), bestCol, bestScore)

aiTry(g, c, r, bestCol, bestScore) ==
    IF r = -1 \/ g.Grid[r][c] # cellEmpty
    THEN aiLoop(g, c + 1, bestCol, bestScore)
    ELSE IF Len(winningLine(setCell(g.Grid, r, c, cellY), r, c, cellY)) >= 4
    THEN c
    ELSE aiKeep(g, c, aiScore(g, r, c), bestCol, bestScore)

aiLoop(g, c, bestCol, bestScore) ==
    IF c >= g.Cols THEN bestCol
    ELSE aiTry(g, c, dropRow(g.Grid, c, g.GravityUp), bestCol, bestScore)

chooseAIMoveFromZero(g) == aiLoop(g, 0, -1, 0)

chooseAIMove(g) == aiLoop(g, 0, -1, -1000000)

(***************************************************************************)
(* Session handlers, as functions of the Game they act on.  blk is the set *)
(* of cells placeBlocks happens to draw for the new game.                  *)
(***************************************************************************)
NoGame  == [Mode |-> "none"]

\* A piece put down: who, where, and the value of Turns the move was checked against.
piece(side, col, row, turn) == [side |-> side, col |-> col, row |-> row, turn |-> turn]

\* gameForRequest: the session's game; a fresh default (easy) game when the
\* request carries no session or asks for a reset.
gameForRequest(s, reset, blk) ==
    IF s = NoGame \/ reset THEN newGame(6, 7, blk) ELSE s

\* handleStartPost, modes "local" and "ai".
handleStartPost(mode, p1, p2, diff, blk) ==
    [newGame(configByDifficulty(diff).rows, configByDifficulty(diff).cols, blk) EXCEPT
        !.Player1 = p1, !.Player2 = p2, !.Difficulty = diff, !.Mode = mode]

handleReplayForgetsScores(g, blk) ==
    [newGame(configByDifficulty(g.Difficulty).rows,
             configByDifficulty(g.Difficulty).cols, blk) EXCEPT
        !.Player1 = g.Player1, !.Player2 = g.Player2, !.Difficulty = g.Difficulty]

handleReplay(g, blk) ==
    [newGame(configByDifficulty(g.Difficulty).rows,
             configByDifficulty(g.Difficulty).cols, blk) EXCEPT
        !.Player1 = g.Player1, !.Player2 = g.Player2,
        !.Scores = g.Scores, !.Difficulty = g.Difficulty]

\* handlePlay, statement by statement.
\* (1) the landing row, or -1 when the request is turned away.
landing(grid, row, c) == IF row = -1 \/ grid[row][c] # cellEmpty THEN -1 ELSE row

playRow(g, c) ==
    IF g.GameOver THEN -1
    ELSE IF c < 0 \/ c >= g.Cols THEN -1
    ELSE landing(g.Grid, dropRow(g.Grid, c, g.GravityUp), c)

\* (2) the piece is put down and counted.
playPlace(g, row, c) ==
    [g EXCEPT !.Grid = setCell(g.Grid, row, c, g.Current),
              !.LastPlayed = g.Current,
              !.Turns = g.Turns + 1]

\* (3) win or draw?
playCheckTopRow(g, row, c) == checkResult(g, 0, c, g.Current)

playCheck(g, row, c) == checkResult(g, row, c, g.Current)

\* (4) the other player is next; gravity flips every 5 moves.
playFlipNever(g) == g

playFlip(g) ==
    IF g.Turns % 5 = 0 THEN [g EXCEPT !.GravityUp = ~g.GravityUp, !.Message = ""] ELSE g

playStays(g) == playFlip(g)

playSwitch(g) ==
    playFlip([g EXCEPT !.Current = IF g.Current = cellR THEN cellY ELSE cellR])

\* (5) in AI mode Yellow answers at once.  moved: whether a piece was placed.
noAI(g) == [g |-> g, moved |-> FALSE, over |-> FALSE, row |-> -1, col |-> -1]

aiFlip(g) ==
    IF g.Turns % 5 = 0 THEN [g EXCEPT !.GravityUp = ~g.GravityUp, !.Message = ""] ELSE g

aiAfter(res, rowAI, aiCol) ==
    IF res.over
    THEN [g |-> res.g, moved |-> TRUE, over |-> TRUE, row |-> rowAI, col |-> aiCol]
    ELSE [g |-> aiFlip([res.g EXCEPT !.Current = cellR]),
          moved |-> TRUE, over |-> FALSE, row |-> rowAI, col |-> aiCol]

aiPlace(g, aiCol, rowAI) ==
    IF rowAI = -1 \/ g.Grid[rowAI][aiCol] # cellEmpty THEN noAI(g)
    ELSE aiAfter(checkResult([g EXCEPT !.Grid = setCell(g.Grid, rowAI, aiCol, cellY),
                                       !.LastPlayed = g.Current,
                                       !.Turns = g.Turns + 1],
                             rowAI, aiCol, cellY),
                 rowAI, aiCol)

aiReply(g, aiCol) ==
    IF aiCol < 0 THEN noAI(g) ELSE aiPlace(g, aiCol, dropRow(g.Grid, aiCol, g.GravityUp))

playAIOnRedsTurn(g) ==
    IF g.Mode = "ai" /\ g.Current = cellR /\ ~g.GameOver
    THEN aiReply(g, chooseAIMove(g))
    ELSE noAI(g)

playAI(g) ==
    IF g.Mode = "ai" /\ g.Current = cellY /\ ~g.GameOver
    THEN aiReply(g, chooseAIMove(g))
    ELSE noAI(g)

\* What a request that runs alone does: the game after it, the page it
\* redirects to, and the pieces placed (mover, column, row), in order.
playAnswered(ai, mine) ==
    [g      |-> ai.g,
     to     |-> IF ai.over THEN "/result" ELSE "/game",
     placed |-> IF ai.moved
                THEN mine \o << piece(cellY, ai.col, ai.row, ai.g.Turns - 1) >>
                ELSE mine]

playChecked(res, mine) ==
    IF res.over THEN [g |-> res.g, to |-> "/result", placed |-> mine]
    ELSE playAnswered(playAI(playSwitch(res.g)), mine)

playFrom(g, c, row) ==
    IF row = -1 THEN [g |-> g, to |-> "/game", placed |-> << >>]
    ELSE playChecked(playCheck(playPlace(g, row, c), row, c),
                     << piece(g.Current, c, row, g.Turns) >>)

handlePlay(g, c) ==
    IF g.GameOver THEN [g |-> g, to |-> "/result", placed |-> << >>]
    ELSE playFrom(g, c, playRow(g, c))

(***************************************************************************)
(* Online handlers, as functions of the lobby they act on.                 *)
(***************************************************************************)
NoLobby == [Game |-> NoGame]

\* handleOnlineCreate, once the code is known to be free.
createLobby(code, rows, cols, blk, p1, p2, diff) ==
    [ Game       |-> [newGame(IF rows <= 0 THEN 6 ELSE rows,
                              IF cols <= 0 THEN 7 ELSE cols, blk) EXCEPT
                         !.Player1 = p1, !.Player2 = p2, !.Difficulty = diff,
                         !.Mode = "online", !.LobbyCode = code, !.ThisIsRed = TRUE],
      HasRed     |-> TRUE,
      HasYellow  |-> FALSE,
      Chat       |-> << >>,
      NextChatID |-> 0 ]

joinLobbyTakesTurns(lb) == [lb EXCEPT !.HasYellow = ~lb.HasYellow]

joinLobby(lb) == IF ~lb.HasYellow THEN [lb EXCEPT !.HasYellow = TRUE] ELSE lb

\* handleOnlinePlay, statement by statement.
onlineExpect(side) == IF side = "Y" THEN cellY ELSE cellR

\* (1) the landing row, or -1 when the request is turned away.
onlineRowIgnoresGameOver(g, side, c) ==
    IF g.Current # onlineExpect(side) THEN -1
    ELSE landing(g.Grid, dropRow(g.Grid, c, g.GravityUp), c)

onlineRow(g, side, c) ==
    IF g.Current # onlineExpect(side) \/ g.GameOver THEN -1
    ELSE landing(g.Grid, dropRow(g.Grid, c, g.GravityUp), c)

\* (2) the piece is put down and counted.
onlinePlace(g, row, c) ==
    [g EXCEPT !.Grid = setCell(g.Grid, row, c, g.Current), !.Turns = g.Turns + 1]

\* (3) win or draw?
onlineCheck(g, row, c) == checkResult(g, row, c, g.Current)

\* (4) the other player is next; gravity flips every 5 moves.
onlineFlip(g) ==
    IF g.Turns % 5 = 0 THEN [g EXCEPT !.GravityUp = ~g.GravityUp, !.Message = ""] ELSE g

onlineSwitch(g) ==
    onlineFlip([g EXCEPT !.Current = IF g.Current = cellR THEN cellY ELSE cellR])

\* What a request does to the lobby's game when it runs alone.
onlineChecked(res, mine) ==
    IF res.over THEN [g |-> res.g, to |-> "/result", placed |-> mine]
    ELSE [g |-> onlineSwitch(res.g), to |-> "/online/wait", placed |-> mine]

onlineFrom(g, c, row) ==
    IF row = -1 THEN [g |-> g, to |-> "/online/wait", placed |-> << >>]
    ELSE onlineChecked(onlineCheck(onlinePlace(g, row, c), row, c),
                       << piece(g.Current, c, row, g.Turns) >>)

handleOnlinePlay(g, side, c) == onlineFrom(g, c, onlineRow(g, side, c))

(***************************************************************************)
(* Server state at start-up: no session, no lobby, nothing in flight.      *)
(***************************************************************************)
Codes == {"ABCD", "WXYZ"}
Reqs  == {1, 2}

\* The last completed request and the page it was redirected to.
answer(kind, code, side, col, to) ==
    [kind |-> kind, code |-> code, side |-> side, col |-> col, to |-> to]

NoAnswer == answer("none", "", "", -1, "")

NoProbe == [g |-> NoGame, call |-> "none", r |-> -1, c |-> -1, p |-> cellEmpty,
            row |-> -1, col |-> -1, line |-> << >>]

ServerInit ==
    /\ sess = NoGame
    /\ lobbies = [code \in Codes |-> NoLobby]
    /\ mu = 0
    /\ pc = [q \in Reqs |-> "idle"]
    /\ loc = [q \in Reqs |-> << >>]
    /\ resp = NoAnswer
    /\ hist = << >>

serverVars == <<sess, lobbies, mu, pc, loc, resp, hist>>

(***************************************************************************)
(* The server when requests are processed one after the other: one action  *)
(* per handler.  In a behaviour the clients either play a session game     *)
(* (scenario "session") or an online lobby (scenario "online").            *)
(***************************************************************************)
MaxTurns == 8
MaxWins  == 1

PlayCols  == {0, 3}
PlayCodes == {"ABCD"}
Sides     == {"R", "Y"}
Modes     == {"local", "ai"}

\* Block layouts placeBlocks may draw for an easy (6 x 7, 3 blocks) game.
EasyLayouts ==
    { {<<0, 3>>, <<1, 3>>, <<5, 6>>}, {<<5, 1>>, <<2, 2>>, <<0, 6>>} }

\* Lobbies as /online/create builds them from its rows, cols, blocks query.
LobbyConfigs ==
    { [rows |-> 6, cols |-> 7, blocks |-> 0, blk |-> {}],
      [rows |-> 6, cols |-> 7, blocks |-> 2, blk |-> {<<0, 3>>, <<1, 3>>}],
      [rows |-> 2, cols |-> 4, blocks |-> 2, blk |-> {<<0, 1>>, <<0, 2>>}] }

Init ==
    /\ ServerInit
    /\ scenario \in {"session", "online"}
    /\ probe = NoProbe

\* POST /start with mode local or ai.
StartPost(mode, blk) ==
    /\ scenario = "session"
    /\ placeBlocksOutcome(6, 7, 3, blk)
    /\ sess' = handleStartPost(mode, "Alice", "Bob", "easy", blk)
    /\ hist' = << >>
    /\ resp' = answer("start", "", "", -1, "/game")
    /\ UNCHANGED <<lobbies, mu, pc, loc, scenario, probe>>

\* POST /play.
PlayDone(c, res) ==
    /\ sess' = res.g
    /\ hist' = (IF sess = NoGame THEN << >> ELSE hist) \o res.placed
    /\ resp' = answer("play", "", "", c, res.to)

PlayOn(g, c) ==
    /\ g.Turns < MaxTurns
    /\ PlayDone(c, handlePlay(g, c))

Play(c, blk) ==
    /\ IF scenario = "online" THEN sess # NoGame ELSE TRUE
    /\ placeBlocksOutcome(6, 7, 3, blk)
    /\ PlayOn(gameForRequest(sess, FALSE, blk), c)
    /\ UNCHANGED <<lobbies, mu, pc, loc, scenario, probe>>

\* POST /replay.
ReplayOn(g, blk) ==
    /\ g.Scores.R + g.Scores.Y <= MaxWins
    /\ sess' = handleReplay(g, blk)

Replay(blk) ==
    /\ scenario = "session"
    /\ placeBlocksOutcome(6, 7, 3, blk)
    /\ ReplayOn(gameForRequest(sess, FALSE, blk), blk)
    /\ hist' = << >>
    /\ resp' = answer("replay", "", "", -1, "/game")
    /\ UNCHANGED <<lobbies, mu, pc, loc, scenario, probe>>

\* POST /reset.
Reset(blk) ==
    /\ scenario = "session"
    /\ placeBlocksOutcome(6, 7, 3, blk)
    /\ sess' = gameForRequest(sess, TRUE, blk)
    /\ hist' = << >>
    /\ resp' = answer("reset", "", "", -1, "/")
    /\ UNCHANGED <<lobbies, mu, pc, loc, scenario, probe>>

\* GET /online/create.
OnlineCreate(code, cfg) ==
    /\ scenario = "online"
    /\ placeBlocksOutcome(cfg.rows, cfg.cols, cfg.blocks, cfg.blk)
    /\ IF lobbies[code] # NoLobby
       THEN /\ resp' = answer("online/create", code, "", -1, "/")
            /\ UNCHANGED <<lobbies, hist>>
       ELSE /\ lobbies' = [lobbies EXCEPT ![code] =
                              createLobby(code, cfg.rows, cfg.cols, cfg.blk,
                                          "Alice", "Bob", "easy")]
            /\ hist' = << >>
            /\ resp' = answer("online/create", code, "R", -1, "/online/wait")
    /\ UNCHANGED <<sess, mu, pc, loc, scenario, probe>>

\* GET /online/join.
OnlineJoin(code) ==
    /\ scenario = "online"
    /\ IF lobbies[code] = NoLobby
       THEN /\ resp' = answer("online/join", code, "", -1, "/")
            /\ UNCHANGED lobbies
       ELSE /\ lobbies' = [lobbies EXCEPT ![code] = joinLobby(lobbies[code])]
            /\ resp' = answer("online/join", code, "Y", -1, "/online/wait")
    /\ UNCHANGED <<sess, mu, pc, loc, hist, scenario, probe>>

\* POST /online/play.  When the move ends the game the finished game is
\* copied into a fresh session of the mover.
OnlinePlayDone(code, side, c, res) ==
    /\ lobbies' = [lobbies EXCEPT ![code].Game = res.g]
    /\ sess' = IF res.to = "/result" THEN res.g ELSE sess
    /\ hist' = hist \o res.placed
    /\ resp' = answer("online/play", code, side, c, res.to)

OnlinePlay(code, side, c) ==
    /\ scenario = "online"
    /\ IF lobbies[code] = NoLobby
       THEN /\ resp' = answer("online/play", code, side, c, "/")
            /\ UNCHANGED <<lobbies, sess, hist>>
       ELSE /\ lobbies[code].Game.Turns < MaxTurns
            /\ OnlinePlayDone(code, side, c, handleOnlinePlay(lobbies[code].Game, side, c))
    /\ UNCHANGED <<mu, pc, loc, scenario, probe>>

Next ==
    \/ \E mode \in Modes, blk \in EasyLayouts : StartPost(mode, blk)
    \/ \E c \in PlayCols, blk \in EasyLayouts : Play(c, blk)
    \/ \E blk \in EasyLayouts : Replay(blk)
    \/ \E blk \in EasyLayouts : Reset(blk)
    \/ \E code \in PlayCodes, cfg \in LobbyConfigs : OnlineCreate(code, cfg)
    \/ \E code \in Codes : OnlineJoin(code)
    \/ \E code \in Codes, side \in Sides, c \in PlayCols : OnlinePlay(code, side, c)

Spec == Init /\ [][Next]_vars

(***************************************************************************)
(* Concurrent requests.  net/http runs every request on its own goroutine, *)
(* so two handlers can be under way at once.  Request q is at pc[q] and    *)
(* keeps its local variables in loc[q]; hist records every piece put down  *)
(* with the value of Turns its request had checked the move against.       *)
(***************************************************************************)
idleAll == \A q \in Reqs : pc[q] = "idle"

(***************************************************************************)
(* Two /online/play requests on one lobby: handleOnlinePlay holds s.mu     *)
(* from the lobby lookup to the redirect.                                  *)
(***************************************************************************)
LobbyTurns == 3

\* s.mu.Lock() returns once nobody holds the mutex.
lockIgnored(m) == TRUE

lockFree(m) == m = 0

LobbyInit ==
    /\ ServerInit
    /\ scenario = "lobby"
    /\ probe = NoProbe

\* GET /online/create.
LobbyCreate(cfg) ==
    /\ lobbies["ABCD"] = NoLobby
    /\ lockFree(mu)
    /\ placeBlocksOutcome(cfg.rows, cfg.cols, cfg.blocks, cfg.blk)
    /\ lobbies' = [lobbies EXCEPT !["ABCD"] =
                      createLobby("ABCD", cfg.rows, cfg.cols, cfg.blk, "Alice", "Bob", "easy")]
    /\ resp' = answer("online/create", "ABCD", "R", -1, "/online/wait")
    /\ UNCHANGED <<sess, mu, pc, loc, hist, scenario, probe>>

\* The form is read; the request goes for the mutex.
OnlineArrive(q, side, c) ==
    /\ pc[q] = "idle"
    /\ lobbies["ABCD"] # NoLobby
    /\ lobbies["ABCD"].Game.Turns < LobbyTurns
    /\ pc' = [pc EXCEPT ![q] = "lock"]
    /\ loc' = [loc EXCEPT ![q] = [side |-> side, col |-> c,
                                  at |-> lobbies["ABCD"].Game.Turns,
                                  row |-> -1, seen |-> -1, out |-> "waiting"]]
    /\ UNCHANGED <<sess, lobbies, mu, resp, hist, scenario, probe>>

OnlineLock(q) ==
    /\ pc[q] = "lock"
    /\ lockFree(mu)
    /\ mu' = q
    /\ pc' = [pc EXCEPT ![q] = "check"]
    /\ UNCHANGED <<sess, lobbies, loc, resp, hist, scenario, probe>>

\* Whose turn, game over, landing row: turned away, or on to the placement.
OnlineTurnedAway(q) ==
    /\ mu' = 0
    /\ pc' = [pc EXCEPT ![q] = "idle"]
    /\ loc' = [loc EXCEPT ![q].out = "rejected"]
    /\ resp' = answer("online/play", "ABCD", loc[q].side, loc[q].col, "/online/wait")

OnlineGoesOn(q, g, row) ==
    /\ pc' = [pc EXCEPT ![q] = "place"]
    /\ loc' = [loc EXCEPT ![q].row = row, ![q].seen = g.Turns]
    /\ UNCHANGED <<mu, resp>>

OnlineCheckTurn(q) ==
    /\ pc[q] = "check"
    /\ IF onlineRow(lobbies["ABCD"].Game, loc[q].side, loc[q].col) = -1
       THEN OnlineTurnedAway(q)
       ELSE OnlineGoesOn(q, lobbies["ABCD"].Game,
                         onlineRow(lobbies["ABCD"].Game, loc[q].side, loc[q].col))
    /\ UNCHANGED <<sess, lobbies, hist, scenario, probe>>

OnlinePlacePiece(q) ==
    /\ pc[q] = "place"
    /\ lobbies' = [lobbies EXCEPT !["ABCD"].Game =
                      onlinePlace(lobbies["ABCD"].Game, loc[q].row, loc[q].col)]
    /\ hist' = Append(hist, piece(lobbies["ABCD"].Game.Current, loc[q].col,
                                  loc[q].row, loc[q].seen))
    /\ pc' = [pc EXCEPT ![q] = "result"]
    /\ UNCHANGED <<sess, mu, loc, resp, scenario, probe>>

\* checkResult; a finished game is copied to the mover's session after the
\* mutex is released.
OnlineEnds(q, g) ==
    /\ lobbies' = [lobbies EXCEPT !["ABCD"].Game = g]
    /\ sess' = g
    /\ mu' = 0
    /\ pc' = [pc EXCEPT ![q] = "idle"]
    /\ loc' = [loc EXCEPT ![q].out = "placed"]
    /\ resp' = answer("online/play", "ABCD", loc[q].side, loc[q].col, "/result")

OnlineResult(q) ==
    /\ pc[q] = "result"
    /\ IF onlineCheck(lobbies["ABCD"].Game, loc[q].row, loc[q].col).over
       THEN OnlineEnds(q, onlineCheck(lobbies["ABCD"].Game, loc[q].row, loc[q].col).g)
       ELSE /\ pc' = [pc EXCEPT ![q] = "switch"]
            /\ UNCHANGED <<sess, lobbies, mu, loc, resp>>
    /\ UNCHANGED <<hist, scenario, probe>>

OnlineSwitchTurn(q) ==
    /\ pc[q] = "switch"
    /\ lobbies' = [lobbies EXCEPT !["ABCD"].Game = onlineSwitch(lobbies["ABCD"].Game)]
    /\ mu' = 0
    /\ pc' = [pc EXCEPT ![q] = "idle"]
    /\ loc' = [loc EXCEPT ![q].out = "placed"]
    /\ resp' = answer("online/play", "ABCD", loc[q].side, loc[q].col, "/online/wait")
    /\ UNCHANGED <<sess, hist, scenario, probe>>

LobbyNext ==
    \/ \E cfg \in LobbyConfigs : LobbyCreate(cfg)
    \/ \E q \in Reqs, side \in Sides, c \in PlayCols : OnlineArrive(q, side, c)
    \/ \E q \in Reqs : OnlineLock(q)
    \/ \E q \in Reqs : OnlineCheckTurn(q)
    \/ \E q \in Reqs : OnlinePlacePiece(q)
    \/ \E q \in Reqs : OnlineResult(q)
    \/ \E q \in Reqs : OnlineSwitchTurn(q)

LobbySpec == LobbyInit /\ [][LobbyNext]_vars

(***************************************************************************)
(* Two /play requests carrying the same session cookie.  gameForRequest    *)
(* holds s.mu for the map lookup only: handlePlay then works on the Game   *)
(* it returned with no lock held, so the statements of the two requests    *)
(* interleave.  g.Turns++ is a read followed by a write.                   *)
(***************************************************************************)
RaceTurns == 5

RaceLayouts == { {<<0, 3>>, <<1, 3>>, <<5, 6>>} }

RaceInit ==
    /\ ServerInit
    /\ scenario = "race"
    /\ probe = NoProbe

\* POST /start with mode local or ai.
RaceStart(mode, blk) ==
    /\ sess = NoGame
    /\ idleAll
    /\ placeBlocksOutcome(6, 7, 3, blk)
    /\ sess' = handleStartPost(mode, "Alice", "Bob", "easy", blk)
    /\ resp' = answer("start", "", "", -1, "/game")
    /\ UNCHANGED <<lobbies, mu, pc, loc, hist, scenario, probe>>

\* A request that runs from its first statement to its last with no other
\* request under way: the opening of the game is played this way.
PlayAloneDone(c, res) ==
    /\ sess' = res.g
    /\ hist' = hist \o res.placed
    /\ resp' = answer("play", "", "", c, res.to)

PlayAlone(c) ==
    /\ idleAll
    /\ sess # NoGame
    /\ sess.Turns < RaceTurns - 1
    /\ PlayAloneDone(c, handlePlay(sess, c))
    /\ UNCHANGED <<lobbies, mu, pc, loc, scenario, probe>>

\* Session lookup, GameOver test, column test and dropRow.
PlayGoesOn(q, c, row) ==
    IF row = -1
    THEN /\ resp' = answer("play", "", "", c, IF sess.GameOver THEN "/result" ELSE "/game")
         /\ loc' = [loc EXCEPT ![q] = [col |-> c, row |-> -1, seen |-> sess.Turns,
                                       n |-> -1, out |-> "rejected"]]
         /\ UNCHANGED pc
    ELSE /\ pc' = [pc EXCEPT ![q] = "place"]
         /\ loc' = [loc EXCEPT ![q] = [col |-> c, row |-> row, seen |-> sess.Turns,
                                       n |-> -1, out |-> "waiting"]]
         /\ UNCHANGED resp

PlayArrive(q, c) ==
    /\ pc[q] = "idle"
    /\ sess # NoGame
    /\ sess.Turns >= RaceTurns - 1
    /\ sess.Turns < RaceTurns
    /\ PlayGoesOn(q, c, playRow(sess, c))
    /\ UNCHANGED <<sess, lobbies, mu, hist, scenario, probe>>

\* g.Grid[row][c] = g.Current; g.LastPlayed = g.Current; Turns is read.
PlayPlacePiece(q) ==
    /\ pc[q] = "place"
    /\ sess' = [sess EXCEPT !.Grid = setCell(sess.Grid, loc[q].row, loc[q].col, sess.Current),
                            !.LastPlayed = sess.Current]
    /\ hist' = Append(hist, piece(sess.Current, loc[q].col, loc[q].row, loc[q].seen))
    /\ loc' = [loc EXCEPT ![q].n = sess.Turns]
    /\ pc' = [pc EXCEPT ![q] = "count"]
    /\ UNCHANGED <<lobbies, mu, resp, scenario, probe>>

\* Turns is written.
PlayCount(q) ==
    /\ pc[q] = "count"
    /\ sess' = [sess EXCEPT !.Turns = loc[q].n + 1]
    /\ pc' = [pc EXCEPT ![q] = "check"]
    /\ UNCHANGED <<lobbies, mu, loc, resp, hist, scenario, probe>>

PlayEnds(q, g) ==
    /\ sess' = g
    /\ pc' = [pc EXCEPT ![q] = "idle"]
    /\ loc' = [loc EXCEPT ![q].out = "placed"]
    /\ resp' = answer("play", "", "", loc[q].col, "/result")

PlayCheckResult(q) ==
    /\ pc[q] = "check"
    /\ IF playCheck(sess, loc[q].row, loc[q].col).over
       THEN PlayEnds(q, playCheck(sess, loc[q].row, loc[q].col).g)
       ELSE /\ pc' = [pc EXCEPT ![q] = "switch"]
            /\ UNCHANGED <<sess, loc, resp>>
    /\ UNCHANGED <<lobbies, mu, hist, scenario, probe>>

PlaySwitchTurn(q) ==
    /\ pc[q] = "switch"
    /\ sess' = playSwitch(sess)
    /\ pc' = [pc EXCEPT ![q] = "ai"]
    /\ UNCHANGED <<lobbies, mu, loc, resp, hist, scenario, probe>>

\* The AI's answer (AI mode, Yellow to move), then the redirect.
PlayAnswer(q, ai) ==
    /\ sess' = ai.g
    /\ hist' = IF ai.moved
               THEN Append(hist, piece(cellY, ai.col, ai.row, ai.g.Turns - 1))
               ELSE hist
    /\ pc' = [pc EXCEPT ![q] = "idle"]
    /\ loc' = [loc EXCEPT ![q].out = "placed"]
    /\ resp' = answer("play", "", "", loc[q].col, IF ai.over THEN "/result" ELSE "/game")

PlayAIReply(q) ==
    /\ pc[q] = "ai"
    /\ PlayAnswer(q, playAI(sess))
    /\ UNCHANGED <<lobbies, mu, scenario, probe>>

RaceNext ==
    \/ \E mode \in Modes, blk \in RaceLayouts : RaceStart(mode, blk)
    \/ \E c \in PlayCols : PlayAlone(c)
    \/ \E q \in Reqs, c \in PlayCols : PlayArrive(q, c)
    \/ \E q \in Reqs : PlayPlacePiece(q)
    \/ \E q \in Reqs : PlayCount(q)
    \/ \E q \in Reqs : PlayCheckResult(q)
    \/ \E q \in Reqs : PlaySwitchTurn(q)
    \/ \E q \in Reqs : PlayAIReply(q)

RaceSpec == RaceInit /\ [][RaceNext]_vars

(***************************************************************************)
(* Harness for the pure functions: a board is drawn, then the function is  *)
(* applied to it and its result kept in probe.                             *)
(***************************************************************************)
boardGame(grid, gravityUp) ==
    [newGame(gridH(grid), gridW(grid), {}) EXCEPT !.Grid = grid, !.GravityUp = gravityUp]

\* The cells start, start+d, ..., start+(len-1)*d, when they all lie on the grid.
runCells(rows, cols, start, d, len) ==
    {<<start[1] + i * d[1], start[2] + i * d[2]>> : i \in 0..(len - 1)}

runFits(rows, cols, start, d, len) ==
    runCells(rows, cols, start, d, len) \subseteq cellsOf(emptyGrid(rows, cols))

stamp(grid, cells, v) ==
    [r \in DOMAIN grid |->
        [c \in DOMAIN grid[r] |-> IF <<r, c>> \in cells THEN v ELSE grid[r][c]]]

\* --- winningLine ---------------------------------------------------------
LineRows == 4
LineCols == 5
MaxRun   == 5

LineBoards ==
    { setCell(stamp(emptyGrid(LineRows, LineCols),
                    runCells(LineRows, LineCols, x[1], dirs[x[2]], x[3]), x[4]),
              x[5][1], x[5][2], x[6]) :
        x \in { y \in cellsOf(emptyGrid(LineRows, LineCols)) \X (1..Len(dirs)) \X (3..MaxRun)
                        \X {cellR, cellY} \X cellsOf(emptyGrid(LineRows, LineCols)) \X Cells :
                    runFits(LineRows, LineCols, y[1], dirs[y[2]], y[3]) } }

LineInit ==
    /\ ServerInit
    /\ scenario = "winningLine"
    /\ \E grid \in LineBoards : probe = [NoProbe EXCEPT !.g = boardGame(grid, FALSE)]

CallWinningLine(r, c) ==
    /\ probe.call = "none"
    /\ probe.g.Grid[r][c] \in {cellR, cellY}
    /\ probe' = [probe EXCEPT !.call = "winningLine", !.r = r, !.c = c,
                              !.p = probe.g.Grid[r][c],
                              !.line = winningLine(probe.g.Grid, r, c, probe.g.Grid[r][c])]
    /\ UNCHANGED <<serverVars, scenario>>

LineNext == \E r \in 0..(LineRows - 1), c \in 0..(LineCols - 1) : CallWinningLine(r, c)

LineSpec == LineInit /\ [][LineNext]_vars

\* --- dropRow -------------------------------------------------------------
DropRows == 3
DropColumns == {0, 1}

DropInit ==
    /\ ServerInit
    /\ scenario = "dropRow"
    /\ \E grid \in [0..(DropRows - 1) -> [DropColumns -> Cells]], up \in BOOLEAN :
           probe = [NoProbe EXCEPT !.g = boardGame(grid, up)]

CallDropRow(c) ==
    /\ probe.call = "none"
    /\ probe' = [probe EXCEPT !.call = "dropRow", !.c = c,
                              !.row = dropRow(probe.g.Grid, c, probe.g.GravityUp)]
    /\ UNCHANGED <<serverVars, scenario>>

DropNext == \E c \in DropColumns : CallDropRow(c)

DropSpec == DropInit /\ [][DropNext]_vars

\* --- chooseAIMove --------------------------------------------------------
AIRows == 4
AICols == 4

AIRuns ==
    { runCells(AIRows, AICols, y[1], dirs[y[2]], 3) :
        y \in { z \in cellsOf(emptyGrid(AIRows, AICols)) \X (1..Len(dirs)) :
                    runFits(AIRows, AICols, z[1], dirs[z[2]], 3) } }

\* Three Yellow cells in a line, three Red cells in a line (Red drawn last),
\* no block.
AIBoards ==
    { stamp(stamp(stamp(emptyGrid(AIRows, AICols), x[1], cellY), x[2], cellR), x[3], cellBlk) :
        x \in AIRuns \X AIRuns \X {{}} }

\* Boards where some columns, or all of them, have no Empty cell left.
AIFullBoards ==
    { stamp(emptyGrid(AIRows, AICols), (0..(AIRows - 1)) \X full, cellBlk) :
        full \in SUBSET (0..(AICols - 1)) }

AIInit ==
    /\ ServerInit
    /\ scenario = "chooseAIMove"
    /\ \E grid \in AIBoards \cup AIFullBoards, up \in BOOLEAN :
           probe = [NoProbe EXCEPT !.g = boardGame(grid, up)]

CallChooseAIMove ==
    /\ probe.call = "none"
    /\ probe' = [probe EXCEPT !.call = "chooseAIMove", !.col = chooseAIMove(probe.g)]
    /\ UNCHANGED <<serverVars, scenario>>

AINext == CallChooseAIMove

AISpec == AIInit /\ [][AINext]_vars

(***************************************************************************)
(* Properties                                                              *)
(***************************************************************************)
\* Four cells in a row through (r,c), all on the grid and all holding p,
\* along one of the four axes.
HasRun(grid, r, c, p) ==
    \E d \in {<<0, 1>>, <<1, 0>>, <<1, 1>>, <<1, -1>>}, k \in 0..3 :
        \A i \in 0..3 :
            LET rr == r + (i - k) * d[1]
                cc == c + (i - k) * d[2]
            IN  /\ rr \in DOMAIN grid
                /\ cc \in DOMAIN grid[rr]
                /\ grid[rr][cc] = p

\* C6: winningLine, applied to a cell holding p, returns at least four cells
\* exactly when some axis has four or more contiguous p-cells through that
\* cell; the cells it returns all hold p and include the cell.
C6_WinningLineIffRun ==
    probe.call = "winningLine" =>
        /\ (Len(probe.line) >= 4) <=> HasRun(probe.g.Grid, probe.r, probe.c, probe.p)
        /\ Len(probe.line) >= 4 =>
              /\ \A i \in 1..Len(probe.line) :
                     probe.g.Grid[probe.line[i][1]][probe.line[i][2]] = probe.p
              /\ \E i \in 1..Len(probe.line) : probe.line[i] = <<probe.r, probe.c>>

\* A win found from an inner cell of the run, on a board that also holds a block.
C6_Witness ==
    /\ probe.call = "winningLine"
    /\ Len(probe.line) >= 4
    /\ probe.line[1] # <<probe.r, probe.c>>
    /\ probe.line[Len(probe.line)] # <<probe.r, probe.c>>
    /\ \E cell \in cellsOf(probe.g.Grid) : probe.g.Grid[cell[1]][cell[2]] = cellBlk

emptyRows(grid, c) == {r \in DOMAIN grid : grid[r][c] = cellEmpty}

maxOf(S) == CHOOSE x \in S : \A y \in S : y <= x
minOf(S) == CHOOSE x \in S : \A y \in S : x <= y

\* C7: dropRow returns the Empty cell with the largest row index of the column
\* under normal gravity, the one with the smallest under inverted gravity, and
\* -1 exactly when the column has no Empty cell.
C7_DropRowFarthestEmpty ==
    probe.call = "dropRow" =>
        LET E == emptyRows(probe.g.Grid, probe.c) IN
        /\ (probe.row = -1) <=> (E = {})
        /\ E # {} => probe.row = IF probe.g.GravityUp THEN minOf(E) ELSE maxOf(E)

\* Normal gravity, and the piece lands above a block and an occupied cell.
C7_Witness ==
    /\ probe.call = "dropRow"
    /\ ~probe.g.GravityUp
    /\ probe.row = 0
    /\ probe.g.Grid[1][probe.c] = cellBlk
    /\ probe.g.Grid[2][probe.c] = cellR

\* The columns where side p, moving now, completes four in a row.
winCols(g, p) ==
    {c \in 0..(g.Cols - 1) :
        LET r == dropRow(g.Grid, c, g.GravityUp) IN
        r # -1 /\ HasRun(setCell(g.Grid, r, c, p), r, c, p)}

\* C9: when some column gives Yellow an immediate four-in-a-row, chooseAIMove
\* returns such a column.
C9_AITakesWin ==
    (probe.call = "chooseAIMove" /\ winCols(probe.g, cellY) # {}) =>
        probe.col \in winCols(probe.g, cellY)

\* Yellow can win in one column and Red in another: the AI takes its own win.
C9_Witness ==
    /\ probe.call = "chooseAIMove"
    /\ winCols(probe.g, cellY) # {}
    /\ winCols(probe.g, cellR) \ winCols(probe.g, cellY) # {}
    /\ probe.col \in winCols(probe.g, cellY)

\* C10: when Yellow has no immediate win and Red has exactly one, chooseAIMove
\* returns the column that takes Red's winning cell.
C10_AIBlocksThreat ==
    (/\ probe.call = "chooseAIMove"
     /\ winCols(probe.g, cellY) = {}
     /\ Cardinality(winCols(probe.g, cellR)) = 1) =>
        probe.col \in winCols(probe.g, cellR)

(***************************************************************************)
(* Properties of the server when requests run one after the other.         *)
(***************************************************************************)
\* The part of a Game the players see change when a move is applied.
played(g) == <<g.Grid, g.Current, g.Turns, g.GravityUp, g.GameOver, g.Scores, g.Winning>>

\* An online move that must be turned away: not the side's turn, the game is
\* over, or the column (in range) has no Empty cell.
illegalOnline(g, side, c) ==
    /\ c \in 0..(g.Cols - 1)
    /\ \/ g.Current # (IF side = "R" THEN cellR ELSE cellY)
       \/ g.GameOver
       \/ emptyRows(g.Grid, c) = {}

\* C1: an online move request from the wrong side, on a finished game or into
\* a full column is turned away (back to the wait page) and leaves the lobby's
\* Grid, Current, Turns, GravityUp, GameOver, Scores and Winning as they were.
C1_OnlineRejectLeavesGame ==
    [][(/\ resp'.kind = "online/play"
        /\ lobbies[resp'.code] # NoLobby
        /\ illegalOnline(lobbies[resp'.code].Game, resp'.side, resp'.col))
       => /\ resp'.to = "/online/wait"
          /\ played(lobbies'[resp'.code].Game) = played(lobbies[resp'.code].Game)]_vars

\* The side to move asked for a column with room, after the game had ended.
C1_Witness ==
    /\ resp.kind = "online/play"
    /\ resp.to = "/online/wait"
    /\ lobbies[resp.code] # NoLobby
    /\ lobbies[resp.code].Game.GameOver
    /\ lobbies[resp.code].Game.Current = (IF resp.side = "R" THEN cellR ELSE cellY)
    /\ emptyRows(lobbies[resp.code].Game.Grid, resp.col) # {}

\* The game the clients of this behaviour play, and the moves applied to it.
theGame == IF scenario \in {"online", "lobby"} THEN lobbies["ABCD"].Game ELSE sess

colsOf(h) == [i \in 1..Len(h) |-> h[i].col]
rowsOf(h) == [i \in 1..Len(h) |-> h[i].row]
sidesOf(h) == [i \in 1..Len(h) |-> h[i].side]

\* A fresh two-player 6 x 7 game, no obstacle in the columns played, after
\* Red 3, Yellow 0, Red 3, Yellow 0, Red 3, Yellow 0, Red 3.
redFourInColumn3 ==
    /\ theGame # NoGame
    /\ theGame.Mode \in {"local", "online"}
    /\ theGame.Rows = 6 /\ theGame.Cols = 7
    /\ \A r \in 0..5 : theGame.Grid[r][0] # cellBlk /\ theGame.Grid[r][3] # cellBlk
    /\ colsOf(hist) = <<3, 0, 3, 0, 3, 0, 3>>
    /\ sidesOf(hist) = <<cellR, cellY, cellR, cellY, cellR, cellY, cellR>>

\* C8, as stated: that sequence ends with Red winning on its 4th piece, by
\* the vertical line of column 3 in rows 5, 4, 3 and 2.
C8_RedWinsColumn3 ==
    redFourInColumn3 =>
        /\ theGame.GameOver
        /\ theGame.Winning = {<<5, 3>>, <<4, 3>>, <<3, 3>>, <<2, 3>>}
        /\ rowsOf(hist)[7] = 2

\* C8, as the code has it: gravity inverts after the 5th move, so Yellow's
\* 3rd and Red's 4th piece land in row 0; Red holds rows 5, 4, 3 and 0 of
\* column 3, nobody has won and Yellow is to move.
C8_FourthRedLandsOnTop ==
    redFourInColumn3 =>
        /\ ~theGame.GameOver
        /\ theGame.Winning = {}
        /\ theGame.GravityUp
        /\ theGame.Turns = 7
        /\ theGame.Current = cellY
        /\ rowsOf(hist) = <<5, 5, 4, 4, 3, 0, 0>>
        /\ theGame.Grid[2][3] = cellEmpty

\* The sequence played on a session game.
C8_Witness == redFourInColumn3 /\ scenario = "session" /\ theGame.Grid[0][3] = cellR

(***************************************************************************)
(* Properties of concurrent requests.                                      *)
(***************************************************************************)
piecesOn(grid) ==
    Cardinality({cell \in cellsOf(grid) : grid[cell[1]][cell[2]] \in {cellR, cellY}})

inCritical(q) == pc[q] \in {"check", "place", "result", "switch"}

\* C2: the turn check, the placement, the result check and the turn switch of
\* handleOnlinePlay run as one critical section: no two requests are inside
\* it at once, no two requests have their move checked against the same turn,
\* every piece put down was checked against the turn it is played in, and
\* Turns counts the pieces on the grid.
C2_OnlinePlayCriticalSection ==
    /\ \A q1, q2 \in Reqs : (inCritical(q1) /\ inCritical(q2)) => q1 = q2
    /\ \A q1, q2 \in Reqs :
          (/\ q1 # q2
           /\ loc[q1] # << >> /\ loc[q2] # << >>
           /\ loc[q1].seen # -1) => loc[q1].seen # loc[q2].seen
    /\ \A i \in 1..Len(hist) :
          /\ hist[i].turn = i - 1
          /\ hist[i].side = IF i % 2 = 1 THEN cellR ELSE cellY
    /\ lobbies["ABCD"] # NoLobby =>
          /\ lobbies["ABCD"].Game.Turns = Len(hist)
          /\ piecesOn(lobbies["ABCD"].Game.Grid) = Len(hist)

\* Two requests of one side for one column, sent for the same turn while the
\* other was under way: one piece is down, the other request was turned away.
C2_Witness ==
    /\ idleAll
    /\ loc[1] # << >> /\ loc[2] # << >>
    /\ loc[1].side = loc[2].side
    /\ loc[1].col = loc[2].col
    /\ loc[1].at = loc[2].at
    /\ loc[1].out = "placed"
    /\ loc[2].out = "rejected"
    /\ lobbies["ABCD"].Game.Turns = loc[1].at + 1

\* C3: two /play requests on one session are never both honoured for the
\* same turn: no two pieces were checked against the same turn, no cell is
\* written twice, and between requests Turns is the number of pieces placed.
C3_PlayAtomic ==
    /\ \A i, j \in 1..Len(hist) :
          i # j => /\ hist[i].turn # hist[j].turn
                   /\ <<hist[i].row, hist[i].col>> # <<hist[j].row, hist[j].col>>
    /\ (sess # NoGame /\ idleAll) => sess.Turns = Len(hist)

\* C4: in every state of a running game, between requests, GravityUp is true
\* exactly when Turns div 5 is odd.
C4_GravityFollowsTurns ==
    (theGame # NoGame /\ ~theGame.GameOver /\ idleAll) =>
        (theGame.GravityUp <=> ((theGame.Turns \div 5) % 2 = 1))

\* C5: once GameOver is true, nothing but a start, reset or replay changes
\* the game's Grid, Current, Turns, GravityUp, Scores or Winning.
C5_GameOverFrozen ==
    [][(/\ theGame # NoGame
        /\ theGame.GameOver
        /\ resp'.kind \notin {"start", "reset", "replay"})
       => played(theGame') = played(theGame)]_vars

(***************************************************************************)
(* More properties of the heuristic opponent.                              *)
(***************************************************************************)
\* The columns with a cell to land on, and the score chooseAIMove gives one.
legalCols(g) == {c \in 0..(g.Cols - 1) : dropRow(g.Grid, c, g.GravityUp) # -1}

scoreOf(g, c) == aiScore(g, dropRow(g.Grid, c, g.GravityUp), c)

bestLeftmostAt(g, col, best) ==
    \A c \in legalCols(g) :
        IF c < col THEN scoreOf(g, c) < best ELSE scoreOf(g, c) <= best

bestLeftmost(g, col) == bestLeftmostAt(g, col, scoreOf(g, col))

\* C11: chooseAIMove returns -1 exactly when no column has a cell to land
\* on; otherwise it returns an in-range column whose landing cell is Empty:
\* the leftmost winning column when Yellow can win, else the leftmost of the
\* columns with the highest score.
C11_AIMoveLegalLeftmostBest ==
    probe.call = "chooseAIMove" =>
        /\ (probe.col = -1) <=> (legalCols(probe.g) = {})
        /\ probe.col # -1 =>
              /\ probe.col \in legalCols(probe.g)
              /\ probe.g.Grid[dropRow(probe.g.Grid, probe.col, probe.g.GravityUp)][probe.col]
                     = cellEmpty
              /\ IF winCols(probe.g, cellY) # {}
                 THEN probe.col = minOf(winCols(probe.g, cellY))
                 ELSE bestLeftmost(probe.g, probe.col)

\* Some column is full, and a column further right scores as much as the
\* one returned.
C11_Witness ==
    /\ probe.call = "chooseAIMove"
    /\ probe.col # -1
    /\ legalCols(probe.g) # 0..(probe.g.Cols - 1)
    /\ \E c \in legalCols(probe.g) :
          c > probe.col /\ scoreOf(probe.g, c) = scoreOf(probe.g, probe.col)

\* Every column is full: no move.
C11_NoMove ==
    /\ probe.call = "chooseAIMove"
    /\ legalCols(probe.g) = {}
    /\ probe.col = -1

(***************************************************************************)
(* Properties of the grid within one game.                                 *)
(***************************************************************************)
blockedOf(grid) == {cell \in cellsOf(grid) : grid[cell[1]][cell[2]] = cellBlk}

changedCells(g1, g2) == {cell \in cellsOf(g1) : g1[cell[1]][cell[2]] # g2[cell[1]][cell[2]]}

\* The pieces a step adds to hist.
newPieces == {hist'[i] : i \in (Len(hist) + 1)..Len(hist')}

startsGame(kind) == kind \in {"start", "reset", "replay", "online/create"}

\* C12: within one game the Blocked cells stay the same, and every move
\* applied changes exactly one cell of the grid, which was Empty before and
\* holds the mover's colour after.
C12_MovesFillOneEmptyCell ==
    [][(/\ theGame # NoGame
        /\ theGame' # NoGame
        /\ ~startsGame(resp'.kind))
       => /\ blockedOf(theGame'.Grid) = blockedOf(theGame.Grid)
          /\ changedCells(theGame.Grid, theGame'.Grid) = {<<p.row, p.col>> : p \in newPieces}
          /\ Cardinality(changedCells(theGame.Grid, theGame'.Grid)) = Len(hist') - Len(hist)
          /\ \A p \in newPieces :
                /\ theGame.Grid[p.row][p.col] = cellEmpty
                /\ theGame'.Grid[p.row][p.col] = p.side]_vars

\* The part of C12 about the Blocked cells alone.
BlockedCellsStay ==
    [][(theGame # NoGame /\ theGame' # NoGame /\ ~startsGame(resp'.kind))
       => blockedOf(theGame'.Grid) = blockedOf(theGame.Grid)]_vars


(***************************************************************************)
(* POST /start with every difficulty the form can send: the board of the   *)
(* new game comes from configByDifficulty.  Scenario "config".             *)
(***************************************************************************)
ConfigTurns == 2

\* The difficulty field as the form may send it, and what
\* strings.ToLower(strings.TrimSpace(...)) makes of it.
FormDifficulties == {"", "easy", "normal", "hard", " Hard ", "NORMAL", "expert"}

lowerTrim(v) ==
    CASE v = " Hard " -> "hard"
      [] v = "NORMAL" -> "normal"
      [] OTHER        -> v

formDifficulty(v) == IF lowerTrim(v) = "" THEN "easy" ELSE lowerTrim(v)

\* Cells placeBlocks may draw, in the order it draws them; a layout is what the
\* first k successful draws leave.
ConfigDraws ==
    { << <<0, 3>>, <<1, 3>>, <<5, 6>>, <<5, 0>>, <<2, 2>>, <<4, 5>>, <<3, 1>> >>,
      << <<5, 1>>, <<2, 2>>, <<0, 6>>, <<5, 7>>, <<0, 8>>, <<6, 0>>, <<6, 7>> >> }

ConfigLayouts == { {d[i] : i \in 1..k} : d \in ConfigDraws, k \in 1..7 }

ConfigInit ==
    /\ ServerInit
    /\ scenario = "config"
    /\ probe = NoProbe

ConfigStartAs(mode, diff, cfg, blk) ==
    /\ placeBlocksOutcome(cfg.rows, cfg.cols, cfg.blocks, blk)
    /\ sess' = handleStartPost(mode, "Alice", "Bob", diff, blk)
    /\ hist' = << >>
    /\ resp' = answer("start", "", "", -1, "/game")
    /\ UNCHANGED <<lobbies, mu, pc, loc, scenario, probe>>

ConfigStart(mode, v, blk) ==
    ConfigStartAs(mode, formDifficulty(v), configByDifficulty(formDifficulty(v)), blk)

ConfigPlay(c) ==
    /\ sess # NoGame
    /\ sess.Turns < ConfigTurns
    /\ PlayDone(c, handlePlay(sess, c))
    /\ UNCHANGED <<lobbies, mu, pc, loc, scenario, probe>>

ConfigReplayAs(g, cfg, blk) ==
    /\ placeBlocksOutcome(cfg.rows, cfg.cols, cfg.blocks, blk)
    /\ sess' = handleReplay(g, blk)
    /\ hist' = << >>
    /\ resp' = answer("replay", "", "", -1, "/game")
    /\ UNCHANGED <<lobbies, mu, pc, loc, scenario, probe>>

ConfigReplay(blk) ==
    /\ sess # NoGame
    /\ ConfigReplayAs(sess, configByDifficulty(sess.Difficulty), blk)

ConfigNext ==
    \/ \E mode \in Modes, v \in FormDifficulties, blk \in ConfigLayouts :
          ConfigStart(mode, v, blk)
    \/ \E c \in PlayCols : ConfigPlay(c)
    \/ \E blk \in ConfigLayouts : ConfigReplay(blk)

ConfigSpec == ConfigInit /\ [][ConfigNext]_vars

\* The boards the documentation gives (README, "Difficultes").
documented(d) ==
    CASE d = "normal" -> [rows |-> 6, cols |-> 8, blocks |-> 5]
      [] d = "hard"   -> [rows |-> 6, cols |-> 9, blocks |-> 7]
      [] OTHER        -> [rows |-> 6, cols |-> 7, blocks |-> 3]

boardIs(g, cfg) ==
    /\ g.Rows = cfg.rows
    /\ g.Cols = cfg.cols
    /\ gridH(g.Grid) = cfg.rows
    /\ gridW(g.Grid) = cfg.cols
    /\ Cardinality(blockedOf(g.Grid)) <= cfg.blocks

\* C13: a game started with difficulty easy, normal or hard has the documented
\* board (6x7 with 3 obstacles, 6x8 with 5, 6x9 with 7), and any other
\* difficulty gets the easy board.
C13_ConfigAsDocumented ==
    (scenario = "config" /\ resp.kind = "start")
        => boardIs(sess, documented(sess.Difficulty))

\* What holds of the code: unknown difficulties and easy get the 6x7 board
\* with at most 3 obstacles.
ConfigEasyAndUnknown ==
    (scenario = "config" /\ resp.kind = "start"
        /\ sess.Difficulty \notin {"normal", "hard"})
        => boardIs(sess, documented("easy"))

ConfigNormalStarted ==
    scenario = "config" /\ resp.kind = "start" /\ sess.Difficulty = "normal"


(***************************************************************************)
(* Lobby bookkeeping: /online/create, /online/join, /chat/post and         *)
(* /chat/feed.  Form values are strings; a text is the sequence of its     *)
(* characters.                                                             *)
(***************************************************************************)
\* strings.ToUpper(strings.TrimSpace(v)) on the values the clients send.
upperTrim(v) ==
    CASE v = " y "  -> "Y"
      [] v = "r"    -> "R"
      [] v = "wxyz" -> "WXYZ"
      [] OTHER      -> v

RECURSIVE trimLeft(_)
trimLeft(t) ==
    IF t = << >> THEN t
    ELSE IF Head(t) = " " THEN trimLeft(Tail(t)) ELSE t

RECURSIVE trimRight(_)
trimRight(t) ==
    IF t = << >> THEN t
    ELSE IF t[Len(t)] = " " THEN trimRight(SubSeq(t, 1, Len(t) - 1)) ELSE t

\* strings.TrimSpace on a text.
trimSpace(t) == trimRight(trimLeft(t))

\* strconv.Atoi / strconv.ParseInt with the error dropped: 0 unless the value
\* is a well-formed integer.
number(n) == [num |-> TRUE, val |-> n]
notNumber(v) == [num |-> FALSE, val |-> v]
atoi(v) == IF v.num THEN v.val ELSE 0

\* s.lobbies[code]
lobbyAt(lbs, code) == IF code \in DOMAIN lbs THEN lbs[code] ELSE NoLobby

maxChatText == 240
maxChat     == 200

\* handleChatPost: the request is turned away with 400 ...
chatBadSideUnchecked(code, side, text) == code = "" \/ text = << >>

chatBad(code, side, text) ==
    code = "" \/ (side # "R" /\ side # "Y") \/ text = << >>

chatText(text) == IF Len(text) > maxChatText THEN SubSeq(text, 1, maxChatText) ELSE text

chatName(name) == IF name = "" THEN "Joueur" ELSE name

\* ... or the message gets the next ID and goes to the end of the log, which
\* keeps its last 200 messages.
chatKeepFirst(log) == IF Len(log) > maxChat THEN SubSeq(log, 1, maxChat) ELSE log

chatKeep(log) ==
    IF Len(log) > maxChat THEN SubSeq(log, Len(log) - maxChat + 1, Len(log)) ELSE log

chatMessage(id, side, name, text) ==
    [ID |-> id, Side |-> side, Name |-> chatName(name), Text |-> chatText(text)]

chatAppend(lb, side, name, text) ==
    [lb EXCEPT !.NextChatID = lb.NextChatID + 1,
               !.Chat = chatKeep(Append(lb.Chat,
                            chatMessage(lb.NextChatID + 1, side, name, text)))]

chatStatus(lbs, code, side, text) ==
    IF chatBad(code, side, text) THEN 400
    ELSE IF lobbyAt(lbs, code) = NoLobby THEN 404 ELSE 204

chatPosted(lbs, code, side, name, text) ==
    IF chatStatus(lbs, code, side, text) = 204
    THEN [lbs EXCEPT ![code] = chatAppend(lbs[code], side, name, text)]
    ELSE lbs

handleChatPost(lbs, code, f) ==
    chatPosted(lbs, upperTrim(code), upperTrim(f.side), f.name, trimSpace(f.text))

\* handleChatFeed: the messages of the log with an ID above since.
feedItemsFrom(log, since) == SelectSeq(log, LAMBDA m : m.ID >= since)

feedItems(log, since) == SelectSeq(log, LAMBDA m : m.ID > since)

feedStatus(lbs, code) ==
    IF code = "" THEN 400 ELSE IF lobbyAt(lbs, code) = NoLobby THEN 404 ELSE 200

feedAnswer(code, since, status, items) ==
    [kind |-> "chat/feed", code |-> code, side |-> "", col |-> since,
     to |-> status, items |-> items]

handleChatFeed(lbs, code, since) ==
    IF feedStatus(lbs, code) = 200
    THEN feedAnswer(code, since, 200, feedItems(lbs[code].Chat, since))
    ELSE feedAnswer(code, since, feedStatus(lbs, code), << >>)

(***************************************************************************)
(* Two clients creating and joining lobbies.  The handlers take s.mu for   *)
(* their whole work on the lobbies; of handleOnlineCreate every statement  *)
(* under the mutex is a step of its own, so that two requests for one code *)
(* interleave.  Scenario "create".                                         *)
(***************************************************************************)
CreatePosts == 2

CodeForms == {"ABCD", "wxyz", "", "QQQQ"}

\* What the two clients ask /online/create for.
createQuery(q) ==
    IF q = 1
    THEN [rows |-> 6, cols |-> 7, blocks |-> 0, blk |-> {}, p1 |-> "Alice", p2 |-> "Bob"]
    ELSE [rows |-> 2, cols |-> 4, blocks |-> 2, blk |-> {<<0, 1>>, <<0, 2>>},
          p1 |-> "Carol", p2 |-> "Dave"]

CreateInit ==
    /\ ServerInit
    /\ scenario = "create"
    /\ probe = NoProbe

\* GET /online/create?code=...: the query is read, the request goes for the mutex.
CreateArrive(q, code) ==
    /\ pc[q] = "idle"
    /\ pc' = [pc EXCEPT ![q] = "create-lock"]
    /\ loc' = [loc EXCEPT ![q] = [code |-> upperTrim(code), out |-> "waiting"]]
    /\ UNCHANGED <<sess, lobbies, mu, resp, hist, scenario, probe>>

CreateLock(q) ==
    /\ pc[q] = "create-lock"
    /\ lockFree(mu)
    /\ mu' = q
    /\ pc' = [pc EXCEPT ![q] = "create-check"]
    /\ UNCHANGED <<sess, lobbies, loc, resp, hist, scenario, probe>>

\* if _, exists := s.lobbies[code]; exists
createExistsNever(lbs, code) == FALSE

createExists(lbs, code) == lobbyAt(lbs, code) # NoLobby

CreateCheck(q) ==
    /\ pc[q] = "create-check"
    /\ IF createExists(lobbies, loc[q].code)
       THEN /\ mu' = 0
            /\ pc' = [pc EXCEPT ![q] = "idle"]
            /\ loc' = [loc EXCEPT ![q].out = "conflict"]
            /\ resp' = answer("online/create", loc[q].code, "", q, "/")
       ELSE /\ pc' = [pc EXCEPT ![q] = "create-insert"]
            /\ UNCHANGED <<mu, loc, resp>>
    /\ UNCHANGED <<sess, lobbies, hist, scenario, probe>>

CreateInsertAs(q, code, cq) ==
    /\ placeBlocksOutcome(cq.rows, cq.cols, cq.blocks, cq.blk)
    /\ lobbies' = [lobbies EXCEPT ![code] =
                      createLobby(code, cq.rows, cq.cols, cq.blk, cq.p1, cq.p2, "easy")]
    /\ mu' = 0
    /\ pc' = [pc EXCEPT ![q] = "idle"]
    /\ loc' = [loc EXCEPT ![q].out = "created"]
    /\ resp' = answer("online/create", code, "R", q, "/online/wait")
    /\ UNCHANGED <<sess, hist, scenario, probe>>

CreateInsert(q) ==
    /\ pc[q] = "create-insert"
    /\ CreateInsertAs(q, loc[q].code, createQuery(q))

\* GET /online/join?code=...
joinAnswer(lbs, code) ==
    IF code = "" \/ lobbyAt(lbs, code) = NoLobby
    THEN answer("online/join", code, "", -1, "/")
    ELSE answer("online/join", code, "Y", -1, "/online/wait")

handleOnlineJoin(lbs, code) ==
    IF code = "" \/ lobbyAt(lbs, code) = NoLobby THEN lbs
    ELSE [lbs EXCEPT ![code] = joinLobby(lbs[code])]

CreateJoin(code) ==
    /\ lockFree(mu)
    /\ lobbies' = handleOnlineJoin(lobbies, upperTrim(code))
    /\ resp' = joinAnswer(lobbies, upperTrim(code))
    /\ UNCHANGED <<sess, mu, pc, loc, hist, scenario, probe>>

\* POST /chat/post by the red player.
CreatePostAs(code, f) ==
    /\ lobbyAt(lobbies, code) # NoLobby
    /\ lobbies[code].NextChatID < CreatePosts
    /\ lobbies' = handleChatPost(lobbies, code, f)
    /\ resp' = answer("chat/post", code, f.side, -1,
                      chatStatus(lobbies, code, f.side, trimSpace(f.text)))
    /\ UNCHANGED <<sess, mu, pc, loc, hist, scenario, probe>>

CreatePost(code) ==
    /\ lockFree(mu)
    /\ CreatePostAs(code, [side |-> "R", name |-> "Alice", text |-> <<"h", "i">>])

CreateNext ==
    \/ \E q \in Reqs, code \in Codes : CreateArrive(q, code)
    \/ \E q \in Reqs : CreateLock(q)
    \/ \E q \in Reqs : CreateCheck(q)
    \/ \E q \in Reqs : CreateInsert(q)
    \/ \E code \in CodeForms : CreateJoin(code)
    \/ \E code \in Codes : CreatePost(code)

CreateSpec == CreateInit /\ [][CreateNext]_vars


createStep(q) ==
    pc[q] \in {"create-lock", "create-check", "create-insert"} /\ pc'[q] # pc[q]

outOf(q) == IF pc[q] = "idle" /\ loc[q] # << >> THEN loc[q].out ELSE "none"

codeOf(q) == IF loc[q] # << >> THEN loc[q].code ELSE ""

\* C14: a create request for a code that exists is turned away, and no step of
\* a create request changes a lobby that exists (game, seats, chat log,
\* NextChatID); of two create requests for one code, whatever their
\* interleaving, at most one is answered with the new lobby, and the lobby's
\* game is never replaced.
C14_CreateNeverOverwrites ==
    [][ /\ \A q \in Reqs, code \in Codes :
              (createStep(q) /\ lobbies[code] # NoLobby)
                  => lobbies'[code] = lobbies[code]
        /\ \A q \in Reqs :
              (createStep(q) /\ pc[q] = "create-check"
                    /\ lobbies[loc[q].code] # NoLobby)
                  => (pc'[q] = "idle" /\ loc'[q].out = "conflict" /\ resp'.to = "/")
        /\ \A code \in Codes :
              lobbies[code] # NoLobby
                  => (lobbies'[code] # NoLobby /\ lobbies'[code].Game = lobbies[code].Game)
        /\ ~(outOf(1)' = "created" /\ outOf(2)' = "created" /\ codeOf(1)' = codeOf(2)')
      ]_vars

\* Request 1 is turned away from a code that request 2 created and on which
\* Yellow has joined and a message was posted.
C14_Witness ==
    /\ scenario = "create"
    /\ resp.kind = "online/create" /\ resp.to = "/" /\ resp.col = 1
    /\ lobbies[resp.code].Game.Player1 = "Carol"
    /\ lobbies[resp.code].HasYellow
    /\ lobbies[resp.code].Chat # << >>
    /\ outOf(1) = "conflict" /\ outOf(2) = "created" /\ codeOf(2) = resp.code


joinStep == resp'.kind = "online/join" /\ UNCHANGED <<pc, loc, mu>>

joined(lbs, code) ==
    [c \in DOMAIN lbs |-> IF c = code THEN [lbs[c] EXCEPT !.HasYellow = TRUE] ELSE lbs[c]]

\* C15: joining an existing code sets HasYellow and changes nothing else of
\* that lobby or of any other (so joining again changes nothing); joining an
\* unknown code is answered with the start page and changes no lobby; in no
\* step does HasYellow go back to false or HasRed get cleared.
C15_JoinFillsYellowSeatOnly ==
    [][ /\ joinStep =>
              IF lobbyAt(lobbies, resp'.code) # NoLobby
              THEN /\ lobbies' = joined(lobbies, resp'.code)
                   /\ resp'.to = "/online/wait"
              ELSE /\ lobbies' = lobbies
                   /\ resp'.to = "/"
        /\ \A code \in Codes :
              lobbies[code] # NoLobby
                  => /\ lobbies'[code] # NoLobby
                     /\ lobbies[code].HasRed /\ lobbies'[code].HasRed
                     /\ lobbies[code].HasYellow => lobbies'[code].HasYellow
      ]_vars

\* Yellow has joined a lobby that has a message in its log, while the other
\* lobby exists with its yellow seat free.
C15_Witness ==
    /\ scenario = "create"
    /\ resp.kind = "online/join" /\ resp.to = "/online/wait"
    /\ lobbies[resp.code].HasYellow /\ lobbies[resp.code].HasRed
    /\ lobbies[resp.code].Chat # << >>
    /\ \E other \in Codes \ {resp.code} :
          lobbies[other] # NoLobby /\ ~lobbies[other].HasYellow


(***************************************************************************)
(* A long conversation in one lobby: more posts than the log keeps.  hist  *)
(* records the accepted messages in posting order.  Scenario "chat".       *)
(***************************************************************************)
ChatPosts == 205

ChatSinces ==
    { number(-1), number(0), number(1), number(5), number(ChatPosts - 1),
      number(ChatPosts), number(ChatPosts + 95), notNumber(""), notNumber("abc") }

ChatLogForms ==
    { [side |-> "r", name |-> "",      text |-> <<" ", "h", "i", " ">>],
      [side |-> "X", name |-> "Alice", text |-> <<"h", "i">>],
      [side |-> "Y", name |-> "Alice", text |-> <<" ">>] }

ChatInit ==
    /\ ServerInit
    /\ scenario = "chat"
    /\ probe = NoProbe

\* GET /online/create?code=ABCD
ChatCreate ==
    /\ lobbies["ABCD"] = NoLobby
    /\ lobbies' = [lobbies EXCEPT !["ABCD"] =
                      createLobby("ABCD", 6, 7, {}, "Alice", "Bob", "easy")]
    /\ resp' = answer("online/create", "ABCD", "R", -1, "/online/wait")
    /\ UNCHANGED <<sess, mu, pc, loc, hist, scenario, probe>>

\* POST /chat/post
ChatPostAs(code, side, f) ==
    /\ lobbyAt(lobbies, code) # NoLobby => lobbies[code].NextChatID < ChatPosts
    /\ lobbies' = handleChatPost(lobbies, code, f)
    /\ hist' = IF chatStatus(lobbies, code, side, trimSpace(f.text)) = 204
               THEN Append(hist, chatMessage(Len(hist) + 1, side, f.name, trimSpace(f.text)))
               ELSE hist
    /\ resp' = answer("chat/post", code, side, -1,
                      chatStatus(lobbies, code, side, trimSpace(f.text)))
    /\ UNCHANGED <<sess, mu, pc, loc, scenario, probe>>

ChatPost(code, f) == ChatPostAs(upperTrim(code), upperTrim(f.side), f)

\* GET /chat/feed?code=...&since=...
ChatFeed(code, since) ==
    /\ resp' = handleChatFeed(lobbies, upperTrim(code), atoi(since))
    /\ UNCHANGED <<sess, lobbies, mu, pc, loc, hist, scenario, probe>>

ChatNext ==
    \/ ChatCreate
    \/ \E code \in CodeForms, f \in ChatLogForms : ChatPost(code, f)
    \/ \E code \in CodeForms, since \in ChatSinces : ChatFeed(code, since)

ChatSpec == ChatInit /\ [][ChatNext]_vars

increasingIDs(log) == \A i \in 1..(Len(log) - 1) : log[i].ID < log[i + 1].ID

\* C16: the log never holds more than 200 messages, its IDs increase strictly
\* and the last one is NextChatID; after n accepted posts it holds the
\* messages numbered max(1, n-199)..n, in posting order, and the n messages
\* accepted so far got the IDs 1..n, each once.
C16_ChatLogKeepsLast200 ==
    \A code \in Codes :
        lobbies[code] # NoLobby =>
            /\ Len(lobbies[code].Chat) <= 200
            /\ increasingIDs(lobbies[code].Chat)
            /\ lobbies[code].Chat # << >>
                  => lobbies[code].Chat[Len(lobbies[code].Chat)].ID
                        = lobbies[code].NextChatID
            /\ scenario = "chat" =>
                  /\ lobbies[code].NextChatID = Len(hist)
                  /\ \A i \in 1..Len(hist) : hist[i].ID = i
                  /\ lobbies[code].Chat =
                        SubSeq(hist, maxOf({1, Len(hist) - 199}), Len(hist))

\* The first five messages were evicted.
C16_Witness ==
    /\ scenario = "chat"
    /\ lobbies["ABCD"] # NoLobby
    /\ lobbies["ABCD"].NextChatID = 205
    /\ Len(lobbies["ABCD"].Chat) = 200
    /\ lobbies["ABCD"].Chat[1].ID = 6


feedStep == resp'.kind = "chat/feed"

above(log, since) == {log[i] : i \in {j \in 1..Len(log) : log[j].ID > since}}

seqSet(items) == {items[i] : i \in 1..Len(items)}

\* What a feed request on an existing lobby answers: the stored messages
\* with an ID above since, each once, by increasing ID.
feedExact(log, since, items) ==
    /\ seqSet(items) = above(log, since)
    /\ increasingIDs(items)
    /\ since >= (IF log = << >> THEN 0 ELSE log[Len(log)].ID) => items = << >>
    /\ since = 0 => items = log

\* C17 as stated: a feed request leaves the lobbies as they are; on an
\* existing lobby it answers exactly the stored messages with an ID above
\* since, by increasing ID (none when since is at least the highest ID, all
\* when since is 0); on an absent lobby it answers the empty sequence.
C17_FeedEmptyForAbsentLobby ==
    [][ (feedStep /\ resp'.code # "") =>
          /\ lobbies' = lobbies
          /\ resp'.to = 200
          /\ IF lobbyAt(lobbies, resp'.code) # NoLobby
             THEN feedExact(lobbies[resp'.code].Chat, resp'.col, resp'.items)
             ELSE resp'.items = << >>
      ]_vars

\* C17: a feed request leaves the lobbies as they are; on an existing lobby
\* it answers exactly the stored messages with an ID above since, by
\* increasing ID (none when since is at least the highest ID, all when since
\* is 0); on an absent lobby it answers not found (bad request when the code
\* is empty) and delivers no message.
C17_FeedMessagesAboveSince ==
    [][ feedStep =>
          /\ lobbies' = lobbies
          /\ IF lobbyAt(lobbies, resp'.code) # NoLobby
             THEN /\ resp'.to = 200
                  /\ feedExact(lobbies[resp'.code].Chat, resp'.col, resp'.items)
             ELSE /\ resp'.to = (IF resp'.code = "" THEN 400 ELSE 404)
                  /\ resp'.items = << >>
      ]_vars

\* A feed request with since = 204 on a log that holds the messages 6..205
\* got the last message only.
C17_Witness ==
    /\ scenario = "chat"
    /\ resp.kind = "chat/feed" /\ resp.to = 200 /\ resp.col = 204
    /\ Len(lobbies[resp.code].Chat) = 200
    /\ lobbies[resp.code].Chat[1].ID = 6
    /\ Len(resp.items) = 1 /\ resp.items[1].ID = 205


(***************************************************************************)
(* Two lobbies, their chats and their games, one request at a time, with   *)
(* chat forms of every kind.  loc[1] holds the form of the last request as *)
(* it was sent.  Scenario "room".                                          *)
(***************************************************************************)
RoomTurns == 1
RoomPosts == 2
LongText  == 241

longText == [i \in 1..LongText |-> "a"]

ChatForms ==
    { [side |-> "R",   name |-> "",      text |-> <<" ", "g", "g", " ">>],
      [side |-> " y ", name |-> "Alice", text |-> longText],
      [side |-> "X",   name |-> "Alice", text |-> <<"g", "g">>],
      [side |-> "",    name |-> "",      text |-> <<"g", "g">>],
      [side |-> "R",   name |-> "Alice", text |-> << >>],
      [side |-> "Y",   name |-> "",      text |-> <<" ", " ">>] }

RoomInit ==
    /\ ServerInit
    /\ scenario = "room"
    /\ probe = NoProbe

\* GET /online/create?code=...
RoomCreateAs(code, cq) ==
    /\ lobbies[code] = NoLobby
    /\ placeBlocksOutcome(cq.rows, cq.cols, cq.blocks, cq.blk)
    /\ lobbies' = [lobbies EXCEPT ![code] =
                      createLobby(code, cq.rows, cq.cols, cq.blk, cq.p1, cq.p2, "easy")]
    /\ resp' = answer("online/create", code, "R", -1, "/online/wait")
    /\ UNCHANGED <<sess, mu, pc, loc, hist, scenario, probe>>

RoomCreate(code) == RoomCreateAs(code, createQuery(IF code = "ABCD" THEN 1 ELSE 2))

\* POST /chat/post
RoomPostAs(code, side, f) ==
    /\ lobbyAt(lobbies, code) # NoLobby => lobbies[code].NextChatID < RoomPosts
    /\ lobbies' = handleChatPost(lobbies, code, f)
    /\ resp' = answer("chat/post", code, side, -1,
                      chatStatus(lobbies, code, side, trimSpace(f.text)))
    /\ UNCHANGED <<sess, mu, pc, hist, scenario, probe>>

RoomPost(code, f) ==
    /\ loc' = [loc EXCEPT ![1] = [code |-> code, side |-> f.side, name |-> f.name,
                                  text |-> f.text]]
    /\ RoomPostAs(upperTrim(code), upperTrim(f.side), f)

\* POST /online/play, column 0 (the pieces are not recorded in hist here).
RoomPlayDone(code, side, res) ==
    /\ lobbies' = [lobbies EXCEPT ![code].Game = res.g]
    /\ sess' = IF res.to = "/result" THEN res.g ELSE sess
    /\ resp' = answer("online/play", code, side, 0, res.to)

RoomPlay(code, side) ==
    /\ lobbies[code] # NoLobby
    /\ lobbies[code].Game.Turns < RoomTurns
    /\ RoomPlayDone(code, side, handleOnlinePlay(lobbies[code].Game, side, 0))
    /\ UNCHANGED <<mu, pc, loc, hist, scenario, probe>>

RoomNext ==
    \/ \E code \in Codes : RoomCreate(code)
    \/ \E code \in CodeForms, f \in ChatForms : RoomPost(code, f)
    \/ \E code \in Codes, side \in Sides : RoomPlay(code, side)

RoomSpec == RoomInit /\ [][RoomNext]_vars


postStep == resp'.kind = "chat/post"

blank(text) == \A i \in 1..Len(text) : text[i] = " "

\* The request Append-ed one message to the log and took the next ID.
oneMore(lb, lb2) ==
    /\ lb2.NextChatID = lb.NextChatID + 1
    /\ Len(lb2.Chat) = Len(lb.Chat) + 1
    /\ SubSeq(lb2.Chat, 1, Len(lb.Chat)) = lb.Chat
    /\ lb2.Chat[Len(lb2.Chat)].ID = lb2.NextChatID
    /\ lb2.Game = lb.Game
    /\ lb2.HasRed = lb.HasRed /\ lb2.HasYellow = lb.HasYellow

\* C18: a post whose text is empty after trimming, whose side is neither R nor
\* Y, or whose code names no lobby is rejected and changes no lobby (no chat
\* log, no NextChatID, no new lobby); every other post is accepted, appends
\* one message to the lobby it names, and changes neither that lobby's game
\* nor any other lobby.
C18_PostRejectedOrAppendsOne ==
    [][ postStep =>
          /\ resp'.to # 204
                <=> \/ blank(loc'[1].text)
                    \/ upperTrim(loc'[1].side) \notin {"R", "Y"}
                    \/ lobbyAt(lobbies, upperTrim(loc'[1].code)) = NoLobby
          /\ resp'.to # 204 => lobbies' = lobbies
          /\ resp'.to = 204 =>
                /\ oneMore(lobbies[resp'.code], lobbies'[resp'.code])
                /\ \A other \in Codes \ {resp'.code} : lobbies'[other] = lobbies[other]
      ]_vars

\* A message was accepted for one lobby while the other lobby has a log and a
\* game of its own, with a piece on the board.
C18_Witness ==
    /\ scenario = "room"
    /\ resp.kind = "chat/post" /\ resp.to = 204
    /\ Len(lobbies[resp.code].Chat) = 2
    /\ Len(lobbies[resp.code].Chat[2].Text) = 240
    /\ lobbies[resp.code].Game.Turns = 1
    /\ \E other \in Codes \ {resp.code} :
          /\ lobbies[other] # NoLobby
          /\ Len(lobbies[other].Chat) = 1
          /\ lobbies[other].Game.Turns = 0


(***************************************************************************)
(* Online moves with form values of every kind, one request at a time.     *)
(* loc[1] holds the form of the last request as it was sent.  Scenario     *)
(* "move".                                                                 *)
(***************************************************************************)
MoveTurns == 2

SideForms == {"R", " y ", "X", ""}
ColForms  == {number(0), number(3), number(7), number(-1), notNumber("abc"), notNumber("")}

MoveInit ==
    /\ ServerInit
    /\ scenario = "move"
    /\ probe = NoProbe

\* GET /online/create?code=...
MoveCreate(code) ==
    /\ RoomCreateAs(code, createQuery(IF code = "ABCD" THEN 1 ELSE 2))

\* POST /online/play
MovePlayAs(code, side, c) ==
    IF lobbyAt(lobbies, code) = NoLobby
    THEN /\ resp' = answer("online/play", code, side, c, "/")
         /\ UNCHANGED <<lobbies, sess, hist>>
    ELSE /\ lobbies[code].Game.Turns < MoveTurns
         /\ OnlinePlayDone(code, side, c, handleOnlinePlay(lobbies[code].Game, side, c))

MovePlay(code, side, col) ==
    /\ loc' = [loc EXCEPT ![1] = [code |-> code, side |-> side, col |-> col]]
    /\ MovePlayAs(upperTrim(code), upperTrim(side), atoi(col))
    /\ UNCHANGED <<mu, pc, scenario, probe>>

MoveNext ==
    \/ \E code \in Codes : MoveCreate(code)
    \/ \E code \in CodeForms \ {""}, side \in SideForms, col \in ColForms :
          MovePlay(code, side, col)

MoveSpec == MoveInit /\ [][MoveNext]_vars

onlinePlayStep == resp'.kind = "online/play"

colInRange(col, g) == col.num /\ col.val >= 0 /\ col.val < g.Cols

\* C19: an online move whose side is neither R nor Y, or whose column is not a
\* well-formed integer within 0..Cols-1, is turned away: the lobby's game and
\* every other lobby stay as they are and no piece is put down.
C19_InvalidOnlineMoveRejected ==
    [][ (/\ onlinePlayStep
         /\ lobbyAt(lobbies, resp'.code) # NoLobby
         /\ \/ upperTrim(loc'[1].side) \notin {"R", "Y"}
            \/ ~colInRange(loc'[1].col, lobbies[resp'.code].Game))
          => (lobbies' = lobbies /\ hist' = hist)
      ]_vars

\* What holds of the code: a column that is a number outside 0..Cols-1 is
\* always turned away, whatever the side.
OnlineColumnOutOfRangeRejected ==
    [][ (/\ onlinePlayStep
         /\ lobbyAt(lobbies, resp'.code) # NoLobby
         /\ loc'[1].col.num
         /\ ~colInRange(loc'[1].col, lobbies[resp'.code].Game))
          => (lobbies' = lobbies /\ hist' = hist)
      ]_vars

\* The same with well-formed requests left out of the premise: a side that is
\* neither R nor Y is taken for Red, a column that is no number for column 0.
OnlineBadSideRejected ==
    [][ (/\ onlinePlayStep
         /\ lobbyAt(lobbies, resp'.code) # NoLobby
         /\ upperTrim(loc'[1].side) \notin {"R", "Y"}
         /\ colInRange(loc'[1].col, lobbies[resp'.code].Game))
          => (lobbies' = lobbies /\ hist' = hist)
      ]_vars

OnlineBadColumnRejected ==
    [][ (/\ onlinePlayStep
         /\ lobbyAt(lobbies, resp'.code) # NoLobby
         /\ upperTrim(loc'[1].side) \in {"R", "Y"}
         /\ ~loc'[1].col.num)
          => (lobbies' = lobbies /\ hist' = hist)
      ]_vars


replayStep == resp'.kind = "replay"

\* A game as newGame leaves it for the difficulty d: nothing played, Red to
\* move, gravity down, the board of d with its Blocked cells only.
freshFor(g, d) ==
    /\ g.Rows = configByDifficulty(d).rows
    /\ g.Cols = configByDifficulty(d).cols
    /\ gridH(g.Grid) = g.Rows /\ gridW(g.Grid) = g.Cols
    /\ \A rc \in cellsOf(g.Grid) : g.Grid[rc[1]][rc[2]] \in {cellEmpty, cellBlk}
    /\ Cardinality(blockedOf(g.Grid)) <= configByDifficulty(d).blocks
    /\ g.Turns = 0
    /\ ~g.GravityUp
    /\ ~g.GameOver
    /\ g.Current = cellR
    /\ g.Winning = {}
    /\ g.Message = ""
    /\ g.LastPlayed = cellEmpty

\* C20: after a replay the session's game has the scores, the two names and
\* the difficulty it had before, and is otherwise a fresh game of that
\* difficulty: Turns = 0, gravity down, not over, Red to move, no winning
\* cell, no piece on the board.
C20_ReplayKeepsScoresOnly ==
    [][ (replayStep /\ sess # NoGame) =>
          /\ sess'.Scores = sess.Scores
          /\ sess'.Player1 = sess.Player1
          /\ sess'.Player2 = sess.Player2
          /\ sess'.Difficulty = sess.Difficulty
          /\ freshFor(sess', sess.Difficulty)
      ]_vars

\* A replay after a game that was won: the score is kept and the board is
\* fresh.
C20_Witness ==
    /\ resp.kind = "replay"
    /\ sess.Scores.R + sess.Scores.Y >= 1
    /\ sess.Player1 = "Alice"
    /\ sess.Turns = 0 /\ ~sess.GameOver


(***************************************************************************)
(* An online game played to its end, and what the two players can ask of   *)
(* the server afterwards.  The lobby record has no field for a vote and    *)
(* the server no route for a rematch: the result page is served from the   *)
(* player's own session, and the only request for a new game is POST       *)
(* /replay on that session.  Here sess is s.sessions, with one cookie per  *)
(* player, and loc[q] the last request of player q (1 Red, 2 Yellow).      *)
(* Scenario "rematch".                                                     *)
(***************************************************************************)
RematchCols == {0, 1, 3}

sideOf(q) == IF q = 1 THEN "R" ELSE "Y"

RematchInit ==
    /\ sess = [side \in Sides |-> NoGame]
    /\ lobbies = [code \in Codes |-> NoLobby]
    /\ mu = 0
    /\ pc = [q \in Reqs |-> "idle"]
    /\ loc = [q \in Reqs |-> << >>]
    /\ resp = NoAnswer
    /\ hist = << >>
    /\ scenario = "rematch"
    /\ probe = NoProbe

\* GET /online/create?code=ABCD&rows=2&cols=4&blocks=2 and GET /online/join.
RematchCreate ==
    /\ lobbies["ABCD"] = NoLobby
    /\ lobbies' = [lobbies EXCEPT !["ABCD"] =
                      joinLobby(createLobby("ABCD", 2, 4, {<<0, 1>>, <<0, 2>>},
                                            "Alice", "Bob", "easy"))]
    /\ resp' = answer("online/join", "ABCD", "Y", -1, "/online/wait")
    /\ UNCHANGED <<sess, mu, pc, loc, hist, scenario, probe>>

\* POST /online/play by player q; the finished game goes to the mover's session.
RematchPlayDone(q, c, res) ==
    /\ lobbies' = [lobbies EXCEPT !["ABCD"].Game = res.g]
    /\ sess' = IF res.to = "/result" THEN [sess EXCEPT ![sideOf(q)] = res.g] ELSE sess
    /\ hist' = hist \o res.placed
    /\ resp' = answer("online/play", "ABCD", sideOf(q), c, res.to)

RematchPlay(q, c) ==
    /\ lobbies["ABCD"] # NoLobby
    /\ RematchPlayDone(q, c, handleOnlinePlay(lobbies["ABCD"].Game, sideOf(q), c))
    /\ loc' = [loc EXCEPT ![q] = [req |-> "online/play", col |-> c]]
    /\ UNCHANGED <<mu, pc, scenario, probe>>

\* POST /replay by player q from the result page.
RematchReplay(q, blk) ==
    /\ lobbies["ABCD"] # NoLobby
    /\ lobbies["ABCD"].Game.GameOver
    /\ placeBlocksOutcome(6, 7, 3, blk)
    /\ sess' = [sess EXCEPT ![sideOf(q)] =
                   handleReplay(gameForRequest(sess[sideOf(q)], FALSE, blk), blk)]
    /\ loc' = [loc EXCEPT ![q] = [req |-> "replay", col |-> -1]]
    /\ resp' = answer("replay", "", sideOf(q), -1, "/game")
    /\ UNCHANGED <<lobbies, mu, pc, hist, scenario, probe>>

RematchNext ==
    \/ RematchCreate
    \/ \E q \in Reqs, c \in RematchCols : RematchPlay(q, c)
    \/ \E q \in Reqs, blk \in EasyLayouts : RematchReplay(q, blk)

RematchSpec == RematchInit /\ [][RematchNext]_vars

askedAgain(q) == loc[q] # << >> /\ loc[q].req = "replay"

\* C21: once the game of a lobby is over and both the Red and the Yellow
\* player have asked for another game, the lobby has a new game.
C21_RematchAfterBothVotes ==
    (scenario = "rematch" /\ askedAgain(1) /\ askedAgain(2))
        => (~lobbies["ABCD"].Game.GameOver /\ lobbies["ABCD"].Game.Turns = 0)

\* What holds of the code: the game of a lobby, once over, stays as it is
\* whatever is asked (so no new game starts before both have asked, nor
\* after).
LobbyGameOverStays ==
    [][ (scenario = "rematch" /\ lobbies["ABCD"] # NoLobby
            /\ lobbies["ABCD"].Game.GameOver)
          => lobbies'["ABCD"] = lobbies["ABCD"] ]_vars


(***************************************************************************)
(* Turns and Current move by move.                                         *)
(***************************************************************************)
otherSide(p) == IF p = cellR THEN cellY ELSE cellR

\* The pieces a step adds to hist, in the order they were put down.
placedNow == SubSeq(hist', Len(hist) + 1, Len(hist'))

wonBy(g) == {g.Grid[cell[1]][cell[2]] : cell \in g.Winning}

\* Turns counts the moves applied one by one, the movers take turns from
\* the player who was Current, and Current is the last mover when the
\* move ended the game, the other player when it did not.
turnsFollow(g, h, g2) ==
    /\ g2.Turns = g.Turns + Len(h)
    /\ \A i \in 1..Len(h) :
          /\ h[i].turn = g.Turns + i - 1
          /\ h[i].side = (IF i % 2 = 1 THEN g.Current ELSE otherSide(g.Current))
    /\ Len(h) = 0 => g2.Current = g.Current
    /\ Len(h) > 0 =>
          /\ g2.GameOver => g2.Current = h[Len(h)].side
          /\ ~g2.GameOver => g2.Current = otherSide(h[Len(h)].side)
          /\ g2.Winning # {} => wonBy(g2) = {g2.Current}

\* A game as it begins: no move counted, Red to play.
firstTurn == [Turns |-> 0, Current |-> cellR]

\* C22: every move applied (by a player or by the AI, in any mode) adds
\* exactly 1 to Turns; Current goes to the other player exactly when the move
\* did not end the game, and is the winner after a winning move; a request
\* that is turned away changes neither Turns nor Current.  Between requests
\* this is stated of the moves applied since the game began, and of the
\* moves of one request when it ran from a quiet server to a quiet server.
C22_MoveCountsOnceAndPassesTurn ==
    [][(theGame' # NoGame /\ idleAll')
       => /\ turnsFollow(firstTurn, hist', theGame')
          /\ (theGame # NoGame /\ idleAll /\ ~startsGame(resp'.kind))
                => turnsFollow(theGame, placedNow, theGame')]_vars

\* The same of the requests that run alone, one after the other.
MoveStepCountsOnce ==
    [][(/\ theGame # NoGame
        /\ theGame' # NoGame
        /\ idleAll /\ idleAll'
        /\ ~startsGame(resp'.kind))
       => turnsFollow(theGame, placedNow, theGame')]_vars


(***************************************************************************)
(* Draws.                                                                  *)
(***************************************************************************)
emptyCells(grid) == {cell \in cellsOf(grid) : grid[cell[1]][cell[2]] = cellEmpty}

\* The game was ended by checkResult with no winning line.
drawn(g) == g # NoGame /\ g.GameOver /\ g.Winning = {}

\* C23: whenever a game has ended in a draw, its board has no Empty cell.
C23_DrawnBoardIsFull ==
    drawn(theGame) => emptyCells(theGame.Grid) = {}

\* What the code does hold to: a drawn board has no Empty cell in row 0.
DrawnBoardTopRowFull ==
    drawn(theGame) => \A cell \in emptyCells(theGame.Grid) : cell[1] # 0


(***************************************************************************)
(* isDraw and checkResult on boards drawn at will: row 0 holds any cells,  *)
(* every lower row is all Empty or all Yellow.  Scenario "checkResult".    *)
(***************************************************************************)
ResultRows == 2
ResultCols == 4

LowerRows == {cellEmpty, cellY}

ResultBoards ==
    { [r \in 0..(ResultRows - 1) |->
          IF r = 0 THEN top ELSE [c \in 0..(ResultCols - 1) |-> low[r]]] :
        top \in [0..(ResultCols - 1) -> Cells],
        low \in [1..(ResultRows - 1) -> LowerRows] }

ResultInit ==
    /\ ServerInit
    /\ scenario = "checkResult"
    /\ \E grid \in ResultBoards, up \in BOOLEAN :
           probe = [NoProbe EXCEPT !.g = boardGame(grid, up)]

CallIsDraw ==
    /\ probe.call = "none"
    /\ probe' = [g |-> probe.g, call |-> "isDraw", r |-> -1, c |-> -1, p |-> cellEmpty,
                 row |-> -1, col |-> -1, line |-> << >>, draw |-> isDraw(probe.g.Grid)]
    /\ UNCHANGED <<serverVars, scenario>>

\* Player p's piece is put at the Empty cell (r,c), then checkResult runs.
CallCheckResult(r, c, p) ==
    /\ probe.call = "none"
    /\ probe.g.Grid[r][c] = cellEmpty
    /\ probe' = [probe EXCEPT
                    !.call = "checkResult", !.r = r, !.c = c, !.p = p,
                    !.g = checkResult([probe.g EXCEPT !.Grid = setCell(probe.g.Grid, r, c, p)],
                                      r, c, p).g]
    /\ UNCHANGED <<serverVars, scenario>>

ResultNext ==
    \/ CallIsDraw
    \/ \E r \in 0..(ResultRows - 1), c \in 0..(ResultCols - 1), p \in {cellR, cellY} :
           CallCheckResult(r, c, p)

ResultSpec == ResultInit /\ [][ResultNext]_vars

topRowOccupied(grid) ==
    \A c \in 0..(gridW(grid) - 1) : grid[0][c] \in {cellR, cellY, cellBlk}

drawReported(g) == g.GameOver /\ g.Message = DrawMessage

\* C24: isDraw is true exactly when every cell of row 0 holds a piece or a
\* block, whatever the other rows hold; checkResult reports a draw only
\* when the piece just placed completes no line of four, and reports the win
\* when it does, the top row being full or not.
C24_DrawIffTopRowOccupied ==
    /\ probe.call = "isDraw" => (probe.draw <=> topRowOccupied(probe.g.Grid))
    /\ probe.call = "checkResult" =>
          /\ drawReported(probe.g) => ~HasRun(probe.g.Grid, probe.r, probe.c, probe.p)
          /\ HasRun(probe.g.Grid, probe.r, probe.c, probe.p) =>
                (probe.g.GameOver /\ probe.g.Winning # {} /\ ~drawReported(probe.g))

\* The piece that fills row 0 also completes four in a row while a lower row
\* is still Empty: the win is what checkResult reports.
C24_Witness ==
    /\ probe.call = "checkResult"
    /\ topRowOccupied(probe.g.Grid)
    /\ probe.r = 0
    /\ emptyCells(probe.g.Grid) # {}
    /\ HasRun(probe.g.Grid, probe.r, probe.c, probe.p)
    /\ probe.g.Winning # {}

\* isDraw says yes on a board whose lower row is all Empty.
DrawWithRoomBelow ==
    /\ probe.call = "isDraw"
    /\ probe.draw
    /\ emptyCells(probe.g.Grid) # {}


(***************************************************************************)
(* dropRow, then the piece is put down, again and again in one column,     *)
(* the direction of gravity chosen anew each time.  Scenario "fill".       *)
(***************************************************************************)
FillRows == 4

\* Column 0 holds any cells; column 1 is all Empty or all Blocked.
FillBoards ==
    { [r \in 0..(FillRows - 1) |-> [c \in {0, 1} |-> IF c = 0 THEN col[r] ELSE side]] :
        col \in [0..(FillRows - 1) -> Cells], side \in {cellEmpty, cellBlk} }

FillInit ==
    /\ ServerInit
    /\ scenario = "fill"
    /\ \E grid \in FillBoards :
           probe = [g |-> boardGame(grid, FALSE), call |-> "none", r |-> -1, c |-> 0,
                    p |-> cellEmpty, row |-> -1, col |-> -1, line |-> << >>,
                    e |-> Cardinality(emptyRows(grid, 0)), n |-> 0]

FillPut(g, row) ==
    /\ probe' = [probe EXCEPT !.call = "dropRow", !.row = row, !.p = g.Current,
                              !.g = IF row = -1 THEN g ELSE playPlace(g, row, probe.c),
                              !.n = IF row = -1 THEN @ ELSE @ + 1]
    /\ UNCHANGED <<serverVars, scenario>>

FillFrom(g) == FillPut(g, dropRow(g.Grid, probe.c, g.GravityUp))

FillStep(up, p) == FillFrom([probe.g EXCEPT !.GravityUp = up, !.Current = p])

FillNext == \E up \in BOOLEAN, p \in {cellR, cellY} : FillStep(up, p)

FillSpec == FillInit /\ [][FillNext]_vars

\* C25: in a column with e >= 1 Empty cells, whatever the direction of
\* gravity each time, dropRow followed by the placement returns a cell that
\* is Empty, fills that cell alone, and so succeeds exactly e times; after
\* that, and only then, dropRow returns -1.
C25_ColumnFillsInExactlyE ==
    [][scenario = "fill" =>
        LET E == emptyRows(probe.g.Grid, probe.c) IN
        /\ (probe'.row = -1) <=> (E = {})
        /\ E # {} =>
              /\ probe'.row \in E
              /\ probe'.g.Grid[probe'.row][probe.c] = probe'.p
              /\ changedCells(probe.g.Grid, probe'.g.Grid) = {<<probe'.row, probe.c>>}
              /\ Cardinality(emptyRows(probe'.g.Grid, probe.c)) = Cardinality(E) - 1
        /\ E = {} => probe'.g.Grid = probe.g.Grid
        /\ probe'.n + Cardinality(emptyRows(probe'.g.Grid, probe.c)) = probe.e
        /\ probe'.row = -1 => probe'.n = probe.e]_vars

\* A column with a block between two Empty cells, filled from both ends, then
\* turned away.
C25_Witness ==
    /\ scenario = "fill"
    /\ probe.call = "dropRow"
    /\ probe.row = -1
    /\ probe.e >= 2
    /\ probe.n = probe.e
    /\ \E r \in 1..(FillRows - 2) : probe.g.Grid[r][probe.c] = cellBlk
    /\ probe.g.Grid[0][probe.c] \in {cellR, cellY}
    /\ probe.g.Grid[FillRows - 1][probe.c] \in {cellR, cellY}


(***************************************************************************)
(* The LastPlayed marker.                                                  *)
(***************************************************************************)
\* C26: after every move applied, in any mode (a local move, the AI's
\* reply, an online move), LastPlayed is the colour of the piece just placed.
C26_LastPlayedIsLastMover ==
    [][(theGame' # NoGame /\ Len(hist') > Len(hist))
       => theGame'.LastPlayed = hist'[Len(hist')].side]_vars

\* The same of session games alone (handlePlay and the AI's reply in it).
SessionLastPlayedIsLastMover ==
    [][(scenario \in {"session", "race"} /\ theGame' # NoGame /\ Len(hist') > Len(hist))
       => theGame'.LastPlayed = hist'[Len(hist')].side]_vars

\* In a lobby game LastPlayed stays as newGame left it.
OnlineLastPlayedNeverSet ==
    (scenario = "online" /\ theGame # NoGame) => theGame.LastPlayed = newGame(6, 7, {}).LastPlayed


(***************************************************************************)
(* Scores.                                                                 *)
(***************************************************************************)
gained(g, g2, p) == g2.Scores[p] - g.Scores[p]

\* The step ends the game by a win.
winsNow(g, g2) == ~g.GameOver /\ g2.GameOver /\ g2.Winning # {}

scoresFollow(g, g2) ==
    /\ gained(g, g2, "R") \in {0, 1}
    /\ gained(g, g2, "Y") \in {0, 1}
    /\ gained(g, g2, "R") + gained(g, g2, "Y") = (IF winsNow(g, g2) THEN 1 ELSE 0)
    /\ gained(g, g2, "R") = 1 => wonBy(g2) = {cellR}
    /\ gained(g, g2, "Y") = 1 => wonBy(g2) = {cellY}

\* C27: a move that wins adds exactly 1 to the winner's score and leaves the
\* other score alone; a move that draws or does not end the game leaves both
\* scores alone; a score is gained only by the move that takes the game from
\* running to over, so between two start, reset or replay actions the sum
\* of the scores grows by 1 at most.
C27_WinScoresOnce ==
    [][(theGame # NoGame /\ theGame' # NoGame /\ ~startsGame(resp'.kind))
       => scoresFollow(theGame, theGame')]_vars


(***************************************************************************)
(* What holds of a game between requests that run one after the other.     *)
(***************************************************************************)
\* Four contiguous cells in line, all of one player's colour.
fourInLine(grid) ==
    \E cell \in cellsOf(grid) :
        /\ grid[cell[1]][cell[2]] \in {cellR, cellY}
        /\ HasRun(grid, cell[1], cell[2], grid[cell[1]][cell[2]])

\* C28: with requests processed one after the other, a game that is not over
\* has no four contiguous cells in line (row, column or diagonal) of one
\* player's colour: a four-in-a-row ends the game on the move that makes it.
C28_NoFourWhileRunning ==
    (theGame # NoGame /\ ~theGame.GameOver) => ~fourInLine(theGame.Grid)

\* The last piece put down made four in line and the game is over, won by
\* its colour.
C28_Witness ==
    /\ theGame # NoGame
    /\ Len(hist) > 0
    /\ HasRun(theGame.Grid, hist[Len(hist)].row, hist[Len(hist)].col, hist[Len(hist)].side)
    /\ theGame.GameOver
    /\ wonBy(theGame) = {hist[Len(hist)].side}


countOf(grid, p) == Cardinality({cell \in cellsOf(grid) : grid[cell[1]][cell[2]] = p})

\* C29: with requests processed one after the other, in every state of a
\* game Turns is the number of Red and Yellow pieces on the board, Red has
\* as many pieces as Yellow or one more, and while the game is not over Red
\* is Current exactly when the two have as many.
C29_TurnsCountPiecesOnBoard ==
    theGame # NoGame =>
        /\ theGame.Turns = countOf(theGame.Grid, cellR) + countOf(theGame.Grid, cellY)
        /\ countOf(theGame.Grid, cellR) - countOf(theGame.Grid, cellY) \in {0, 1}
        /\ ~theGame.GameOver =>
              (theGame.Current = cellR <=>
                  countOf(theGame.Grid, cellR) = countOf(theGame.Grid, cellY))

\* A running game of three moves or more where Red has one piece more than
\* Yellow and Yellow is to move.
C29_Witness ==
    /\ theGame # NoGame
    /\ ~theGame.GameOver
    /\ countOf(theGame.Grid, cellR) = countOf(theGame.Grid, cellY) + 1
    /\ theGame.Turns >= 3
    /\ theGame.Current = cellY
    /\ resp.kind \in {"play", "online/play"}
    /\ resp.to \in {"/game", "/online/wait"}


(***************************************************************************)
(* Games on the built-in boards played to their end.  The player asks for  *)
(* the columns offset, offset + stride, ... in turn (modulo Cols) and, when *)
(* that column has no Empty cell, for the next one that has.  Scenario      *)
(* "endgame"; loc[1] holds the player's stride and offset.                  *)
(***************************************************************************)
EndStrides == {1, 2, 3}
EndOffsets == {0, 3}

\* Layouts placeBlocks may draw: spread over the board, or all in row 0.
EndGames ==
    { [diff |-> "easy",   blk |-> {<<0, 3>>, <<1, 3>>, <<5, 6>>}],
      [diff |-> "easy",   blk |-> {<<0, 0>>, <<0, 1>>, <<0, 2>>}],
      [diff |-> "normal", blk |-> {<<5, 1>>, <<2, 2>>, <<0, 6>>, <<5, 7>>, <<0, 8>>}],
      [diff |-> "normal", blk |-> {<<0, 0>>, <<0, 2>>, <<0, 4>>, <<0, 6>>, <<0, 8>>}],
      [diff |-> "hard",   blk |-> {<<0, 3>>, <<1, 3>>, <<5, 6>>, <<5, 0>>,
                                   <<2, 2>>, <<4, 5>>, <<3, 1>>}],
      [diff |-> "hard",   blk |-> {<<0, c>> : c \in 0..6}] }

EndInit ==
    /\ ServerInit
    /\ scenario = "endgame"
    /\ probe = NoProbe

EndStartAs(mode, game, cfg, plan) ==
    /\ sess = NoGame
    /\ placeBlocksOutcome(cfg.rows, cfg.cols, cfg.blocks, game.blk)
    /\ sess' = handleStartPost(mode, "Alice", "Bob", game.diff, game.blk)
    /\ loc' = [loc EXCEPT ![1] = plan]
    /\ hist' = << >>
    /\ resp' = answer("start", "", "", -1, "/game")
    /\ UNCHANGED <<lobbies, mu, pc, scenario, probe>>

EndStart(mode, game, stride, offset) ==
    EndStartAs(mode, game, configByDifficulty(game.diff),
               [stride |-> stride, offset |-> offset])

\* The first of the columns c, c + 1, ... (modulo Cols) with an Empty cell.
RECURSIVE nextLegal(_, _, _)
nextLegal(g, c, k) ==
    IF k >= g.Cols THEN -1
    ELSE IF dropRow(g.Grid, (c + k) % g.Cols, g.GravityUp) # -1 THEN (c + k) % g.Cols
    ELSE nextLegal(g, c, k + 1)

wanted(g, plan) == nextLegal(g, (plan.offset + plan.stride * g.Turns) % g.Cols, 0)

EndPlay(c) ==
    /\ sess # NoGame
    /\ ~sess.GameOver
    /\ c = wanted(sess, loc[1])
    /\ PlayDone(c, handlePlay(sess, c))
    /\ UNCHANGED <<lobbies, mu, pc, loc, scenario, probe>>

\* A request the server turns away: the game is over, or the column is off
\* the board or has no Empty cell.  The player tries the column after the
\* one of the request before.
EndPlayTurnedAway(c) ==
    /\ sess # NoGame
    /\ resp.kind = "play"
    /\ c = (resp.col + 1) % 9
    /\ sess.GameOver \/ c >= sess.Cols \/ dropRow(sess.Grid, c, sess.GravityUp) = -1
    /\ PlayDone(c, handlePlay(sess, c))
    /\ UNCHANGED <<lobbies, mu, pc, loc, scenario, probe>>

EndNext ==
    \/ \E mode \in Modes, game \in EndGames, stride \in EndStrides, offset \in EndOffsets :
          EndStart(mode, game, stride, offset)
    \/ \E c \in 0..8 : EndPlay(c)
    \/ \E c \in 0..8 : EndPlayTurnedAway(c)

EndSpec == EndInit /\ [][EndNext]_vars

\* C30: a game on a built-in board that is not over has a column with a
\* legal drop cell; in AI mode the AI has answered every move that left the
\* game running (chooseAIMove returned a column), so Red is to move.
C30_RunningGameHasLegalMove ==
    (theGame # NoGame /\ ~theGame.GameOver) =>
        /\ legalCols(theGame) # {}
        /\ theGame.Mode = "ai" =>
              /\ theGame.Current = cellR
              /\ Len(hist) > 0 => hist[Len(hist)].side = cellY

\* Late in a game against the AI on the hard board: one cell of row 0 is
\* still Empty, the AI has just answered and the game goes on.
C30_Witness ==
    /\ scenario = "endgame"
    /\ theGame # NoGame
    /\ theGame.Mode = "ai"
    /\ theGame.Difficulty = "hard"
    /\ ~theGame.GameOver
    /\ theGame.Turns >= 12
    /\ Cardinality({cell \in emptyCells(theGame.Grid) : cell[1] = 0}) = 1
    /\ hist[Len(hist)].side = cellY


(***************************************************************************)
(* The cells checkResult marks.  A board of a running game is drawn (a run *)
(* with a gap, no four in line yet), a piece is put on an Empty cell and   *)
(* checkResult runs.  Scenario "marks".                                    *)
(***************************************************************************)
MarkInit ==
    /\ ServerInit
    /\ scenario = "marks"
    /\ \E grid \in LineBoards :
           /\ ~fourInLine(grid)
           /\ probe = [NoProbe EXCEPT !.g = boardGame(grid, FALSE)]

MarkNext ==
    \E r \in 0..(LineRows - 1), c \in 0..(LineCols - 1), p \in {cellR, cellY} :
        CallCheckResult(r, c, p)

MarkSpec == MarkInit /\ [][MarkNext]_vars

\* Four cells one after the other along one axis.
fourAlongAxis(S) ==
    \E start \in S, d \in {<<0, 1>>, <<1, 0>>, <<1, 1>>, <<1, -1>>} :
        S = {<<start[1] + i * d[1], start[2] + i * d[2]>> : i \in 0..3}

marksFollow(g, r, c, p) ==
    IF g.GameOver /\ HasRun(g.Grid, r, c, p)
    THEN /\ Cardinality(g.Winning) = 4
         /\ fourAlongAxis(g.Winning)
         /\ \A cell \in g.Winning : g.Grid[cell[1]][cell[2]] = p
         /\ <<r, c>> \in g.Winning
    ELSE g.Winning = {}

\* C31: when a move wins, exactly 4 cells are marked in Winning; they follow
\* one another along one axis, all hold the winner's colour and the cell
\* just placed is one of them, also when the run completed is longer than 4;
\* after a draw and in a game that goes on no cell is marked.
C31_WinMarksFourCells ==
    /\ (scenario = "marks" /\ probe.call = "checkResult") =>
          marksFollow(probe.g, probe.r, probe.c, probe.p)
    /\ (scenario \in {"session", "online"} /\ theGame # NoGame) =>
          IF Len(hist) > 0
          THEN marksFollow(theGame, hist[Len(hist)].row, hist[Len(hist)].col,
                           hist[Len(hist)].side)
          ELSE theGame.Winning = {}

\* The piece closes the gap of a run of five or more: four cells are marked,
\* the piece among them.
C31_Witness ==
    /\ scenario = "marks"
    /\ probe.call = "checkResult"
    /\ probe.g.GameOver
    /\ Len(winningLine(probe.g.Grid, probe.r, probe.c, probe.p)) >= 5
    /\ Cardinality(probe.g.Winning) = 4
    /\ <<probe.r, probe.c>> \in probe.g.Winning


(***************************************************************************)
(* The AI's reply inside a /play request.                                  *)
(***************************************************************************)
playStep == resp'.kind = "play"

\* The board as it was between the two pieces of a request.
boardBetween(grid, last) == setCell(grid, last.row, last.col, cellEmpty)

\* C32: in an AI-mode session, requests running one after the other, after
\* every /play request the game is over or Red is to move: a move of Red
\* that is accepted and does not end the game is followed in the same
\* request by exactly one move of Yellow, and Yellow does not move after a
\* move of Red that ended the game nor after a request that was turned away.
C32_AIAnswersOncePerRequest ==
    [][(playStep /\ sess # NoGame /\ sess.Mode = "ai" /\ sess' # NoGame)
       => /\ sess'.GameOver \/ sess'.Current = cellR
          /\ Len(placedNow) \in {0, 1, 2}
          /\ Len(placedNow) = 0 => played(sess') = played(sess)
          /\ Len(placedNow) >= 1 => placedNow[1].side = cellR /\ ~sess.GameOver
          /\ Len(placedNow) = 1 => sess'.GameOver
          /\ Len(placedNow) = 2 =>
                /\ placedNow[2].side = cellY
                /\ ~HasRun(boardBetween(sess'.Grid, placedNow[2]),
                           placedNow[1].row, placedNow[1].col, cellR)
                /\ ~topRowOccupied(boardBetween(sess'.Grid, placedNow[2]))]_vars

\* A request was turned away in a game against the AI that goes on.
AIRequestTurnedAway ==
    /\ scenario = "endgame"
    /\ resp.kind = "play"
    /\ sess # NoGame
    /\ sess.Mode = "ai"
    /\ ~sess.GameOver
    /\ resp.col \notin legalCols(sess)

\* Red's move ended a game against the AI and Yellow did not answer.
C32_Witness ==
    /\ scenario = "endgame"
    /\ resp.kind = "play"
    /\ sess # NoGame
    /\ sess.Mode = "ai"
    /\ sess.GameOver
    /\ Len(hist) > 0
    /\ hist[Len(hist)].side = cellR


(***************************************************************************)
(* Replay and the game mode.                                               *)
(***************************************************************************)
\* C33: a replay keeps the mode of the session's game: after the replay of
\* an AI-mode game the game is still in AI mode.
C33_ReplayKeepsMode ==
    [][(replayStep /\ sess # NoGame) => sess'.Mode = sess.Mode]_vars

\* What the code does: the game after a replay is a two-player game.
ReplayGivesLocalGame ==
    [][(replayStep /\ sess # NoGame) => sess'.Mode = "local"]_vars


(***************************************************************************)
(* Polling the lobby while a move is applied.  Request 1 plays online      *)
(* moves step by step (under s.mu, as above); request 2 is a poll:         *)
(* handleOnlineState or handleOnlineWait, which hold s.mu for the lookup    *)
(* of the lobby only and read lb.Game after unlocking.  Scenario           *)
(* "snapshot"; loc[2] holds what the poll has read so far.                 *)
(***************************************************************************)
SnapInit ==
    /\ ServerInit
    /\ scenario = "snapshot"
    /\ probe = NoProbe

NoSnapshot == [req |-> "none", gameOver |-> FALSE, current |-> cellEmpty,
               gravityUp |-> FALSE, turns |-> -1, out |-> "waiting"]

\* s.mu.Lock(); lb, ok := s.lobbies[code]; s.mu.Unlock()
PollLookup(req, next) ==
    /\ pc[2] = "idle"
    /\ lockFree(mu)
    /\ IF lobbies["ABCD"] = NoLobby
       THEN /\ resp' = answer(req, "ABCD", "", -1, "not found")
            /\ loc' = [loc EXCEPT ![2] = [NoSnapshot EXCEPT !.req = req, !.out = "not found"]]
            /\ UNCHANGED pc
       ELSE /\ pc' = [pc EXCEPT ![2] = next]
            /\ loc' = [loc EXCEPT ![2] = [NoSnapshot EXCEPT !.req = req]]
            /\ UNCHANGED resp
    /\ UNCHANGED <<sess, lobbies, mu, hist, scenario, probe>>

StateLookup == PollLookup("online/state", "readGameOver")

\* The arguments of Sprintf are read one after the other, s.mu not held.
StateRead(at, next, snap) ==
    /\ pc[2] = at
    /\ pc' = [pc EXCEPT ![2] = next]
    /\ loc' = [loc EXCEPT ![2] = snap]
    /\ UNCHANGED <<sess, lobbies, mu, resp, hist, scenario, probe>>

StateReadGameOver ==
    StateRead("readGameOver", "readCurrent",
              [loc[2] EXCEPT !.gameOver = lobbies["ABCD"].Game.GameOver])

StateReadCurrent ==
    StateRead("readCurrent", "readGravityUp",
              [loc[2] EXCEPT !.current = lobbies["ABCD"].Game.Current])

StateReadGravityUp ==
    StateRead("readGravityUp", "readTurns",
              [loc[2] EXCEPT !.gravityUp = lobbies["ABCD"].Game.GravityUp])

StateReadTurns ==
    /\ pc[2] = "readTurns"
    /\ pc' = [pc EXCEPT ![2] = "idle"]
    /\ loc' = [loc EXCEPT ![2] = [loc[2] EXCEPT
                                          !.turns = lobbies["ABCD"].Game.Turns,
                                          !.out = "answered"]]
    /\ resp' = answer("online/state", "ABCD", "", -1, "ok")
    /\ UNCHANGED <<sess, lobbies, mu, hist, scenario, probe>>

WaitLookup == PollLookup("online/wait", "copy")

\* gcopy := *lb.Game, s.mu not held; the page is rendered from the copy.
WaitCopyOf(g, side) ==
    /\ loc' = [loc EXCEPT ![2] = [loc[2] EXCEPT
                                          !.gameOver = g.GameOver, !.current = g.Current,
                                          !.gravityUp = g.GravityUp, !.turns = g.Turns,
                                          !.out = "answered"]]
    /\ resp' = answer("online/wait", "ABCD", side, -1, "game")

WaitCopy(side) ==
    /\ pc[2] = "copy"
    /\ pc' = [pc EXCEPT ![2] = "idle"]
    /\ WaitCopyOf(lobbies["ABCD"].Game, side)
    /\ UNCHANGED <<sess, lobbies, mu, hist, scenario, probe>>

SnapNext ==
    \/ \E cfg \in LobbyConfigs : LobbyCreate(cfg)
    \/ \E side \in Sides, c \in PlayCols : OnlineArrive(1, side, c)
    \/ OnlineLock(1)
    \/ OnlineCheckTurn(1)
    \/ OnlinePlacePiece(1)
    \/ OnlineResult(1)
    \/ OnlineSwitchTurn(1)
    \/ StateLookup
    \/ StateReadGameOver
    \/ StateReadCurrent
    \/ StateReadGravityUp
    \/ StateReadTurns
    \/ WaitLookup
    \/ \E side \in Sides : WaitCopy(side)

SnapSpec == SnapInit /\ [][SnapNext]_vars

\* The lobby's game as it was after the first k moves were completed.
RECURSIVE lobbyAfter(_)
lobbyAfter(k) ==
    IF k = 0
    THEN createLobby("ABCD", lobbies["ABCD"].Game.Rows, lobbies["ABCD"].Game.Cols,
                     blockedOf(lobbies["ABCD"].Game.Grid), "Alice", "Bob", "easy").Game
    ELSE handleOnlinePlay(lobbyAfter(k - 1),
                          IF hist[k].side = cellR THEN "R" ELSE "Y", hist[k].col).g

\* The moves completed so far: a piece that is down while its request has
\* not yet run checkResult and passed the turn is not one.
completedMoves ==
    Len(hist) - (IF pc[1] \in {"result", "switch"} THEN 1 ELSE 0)

snapshotOf(g) ==
    [gameOver |-> g.GameOver, current |-> g.Current, gravityUp |-> g.GravityUp,
     turns |-> g.Turns]

pollAnswer ==
    [gameOver |-> loc[2].gameOver, current |-> loc[2].current,
     gravityUp |-> loc[2].gravityUp, turns |-> loc[2].turns]

polled == scenario = "snapshot" /\ loc[2] # << >> /\ loc[2].out = "answered"

\* C34: whatever online moves run at the same time, what handleOnlineState
\* returns (gameOver, current, gravityUp, turns) and the copy of the game
\* handleOnlineWait renders hold the values of one state the lobby was in
\* between two completed moves, never values from the middle of a move.
C34_PollSeesQuietLobbyState ==
    polled => \E k \in 0..completedMoves : pollAnswer = snapshotOf(lobbyAfter(k))

\* A poll answered with Turns already counted and the turn not yet passed.
PollSawHalfAMove ==
    /\ polled
    /\ loc[2].req = "online/state"
    /\ loc[2].turns = 1
    /\ loc[2].current = cellR
    /\ ~loc[2].gameOver

====
